---- MODULE Spec2Model ----
(***************************************************************************)
(* Radarr_Kodi: the event handler (src/event_handler/event_handler.py),    *)
(* the multi-host LibraryManager (src/kodi/library_manager.py) and the     *)
(* per-host KodiRPC facade (src/kodi/rpc_client.py).                        *)
(*                                                                         *)
(* One behaviour is one invocation of the script: one Radarr event is      *)
(* handled start to finish.  The Kodi side (which hosts answer, what their *)
(* players show, what the shared catalog holds, what the new files would   *)
(* add to it) is drawn in Init; a host answers a request from that state.  *)
(* Requests that command a host (stop, open, pause, scan, clean, remove,   *)
(* set details, notification) are recorded in rpc; queries are not.        *)
(***************************************************************************)
EXTENDS Integers, Sequences, FiniteSets, TLC

\* ------------------------------------------------------------------ bounds
NumHosts == 2        \* configured, enabled hosts at most
MaxPaths == 2        \* entries of Radarr's '|' delimited path lists at most
MaxDev == 2          \* settings in which a run departs from the nominal run at most

\* ------------------------------------------------------------ the universe
None == "None"
HostNames == <<"A", "B", "C">>
Names == {HostNames[i] : i \in 1..NumHosts}
NoTmdb == 0                          \* uniqueid carries no "tmdb" key
Position == 425                      \* player percentage, in tenths (42.5 %)

\* MovieDetails: only tmdb takes part in ==; movie_id is server-assigned.
\* The entry of the i-th old file has id i, the entry a scan creates for the
\* k-th new file has id MaxPaths + k
Movie(id, t) == [movie_id |-> id, tmdb |-> t]
OldIds == 1..MaxPaths
NewIds == (MaxPaths + 1)..(2 * MaxPaths)
TmdbIds == {NoTmdb} \cup OldIds

\* dataclass(eq=True) with tmdb the only compare=True field
MovieEq(a, b) == a.tmdb = b.tmdb

\* x in list, with the dataclass __eq__
InList(x, list) == \E i \in DOMAIN list : MovieEq(list[i], x)

SeqToSet(s) == {s[i] : i \in DOMAIN s}

RECURSIVE SelectList(_, _)
\* [x for x in after if x not in before]
SelectList(after, before) ==
  IF after = <<>> THEN <<>>
  ELSE LET rest == SelectList(Tail(after), before)
       IN IF InList(Head(after), before) THEN rest ELSE <<Head(after)>> \o rest

RECURSIVE ById(_)
\* the entries of a catalog answer, in server-id order
ById(set) ==
  IF set = {} THEN <<>>
  ELSE LET m == CHOOSE x \in set : \A y \in set : x.movie_id <= y.movie_id
       IN <<m>> \o ById(set \ {m})

\* ------------------------------------------------------------------ events
NotifyOnly == {"Grab", "MovieAdded", "HealthIssue", "HealthRestored",
               "ApplicationUpdate", "ManualInteractionRequired", "Test"}
Workflows == {"DownloadNew", "DownloadUpgrade", "Rename", "MovieFileDelete", "MovieDelete"}
EventKinds == NotifyOnly \cup Workflows

\* cfg.notifications.* read by each handler
Toggle(ev) ==
  CASE ev = "Grab" -> "on_grab"
    [] ev = "DownloadNew" -> "on_download_new"
    [] ev = "DownloadUpgrade" -> "on_download_upgrade"
    [] ev = "Rename" -> "on_rename"
    [] ev = "MovieFileDelete" -> "on_delete"
    [] ev = "MovieAdded" -> "on_movie_add"
    [] ev = "MovieDelete" -> "on_movie_delete"
    [] ev = "HealthIssue" -> "on_health_issue"
    [] ev = "HealthRestored" -> "on_health_restored"
    [] ev = "ApplicationUpdate" -> "on_application_update"
    [] ev = "ManualInteractionRequired" -> "on_manual_interaction_required"
    [] OTHER -> "on_test"
Toggles == {Toggle(ev) : ev \in EventKinds}

\* the title each handler passes to kodi.notify
Title(ev) ==
  CASE ev = "Grab" -> "Radarr - Attempting Download"
    [] ev = "DownloadNew" -> "Radarr - Downloaded New Movie"
    [] ev = "DownloadUpgrade" -> "Radarr - Upgraded Episode"
    [] ev = "Rename" -> "Radarr - Renamed Movie"
    [] ev = "MovieFileDelete" -> "Radarr - Deleted Episode"
    [] ev = "MovieAdded" -> "Radarr - Series Added"
    [] ev = "MovieDelete" -> "Radarr - Movie Deleted"
    [] ev = "HealthIssue" -> "Radarr - Health Issue"
    [] ev = "HealthRestored" -> "Radarr - Health Restored"
    [] ev = "ApplicationUpdate" -> "Radarr - Application Update"
    [] ev = "ManualInteractionRequired" -> "Radarr - Manual Interaction Required"
    [] OTHER -> "Radarr - Testing"
StoppedTitle == "Radarr - Stopped Playback"
WorkflowTitles == {Title(ev) : ev \in EventKinds}

\* the delete reasons Radarr reports
DeleteReasons == {"MissingFromDisk", "Manual", "upgrade", "Upgrade", "UPGRADE"}

\* a comparison that does not fold the case
C9_mut_Lower(s) == s

\* str.lower()
Lower(s) ==
  CASE s \in {"upgrade", "Upgrade", "UPGRADE"} -> "upgrade"
    [] s = "MissingFromDisk" -> "missingfromdisk"
    [] OTHER -> "manual"

\* ------------------------------------------------------------------- state
VARIABLES
  event,           \* env.event_type, as dispatched
  env,             \* RadarrEnvironment: paths, delete reason, deleted files
  cfg,             \* Config: library toggles and notification toggles
  hosts,           \* LibraryManager.hosts: names in order, None for a dead host
  scanned,         \* names of hosts with library_scanned = True
  store,           \* PICKLE_PATH: [exists, data]
  pc,              \* position in the handler
  todo,            \* paths of the first loop still to be looked up
  old_movies,      \* old entries of the current path still to be processed
  removed_movies,  \* handler local
  new_movies,      \* handler local
  before,          \* movies_before_scan of the scan in progress
  pending,         \* new entries start_playback is still to be called for
  mode,            \* Kodi: how each host answers requests, see Modes
  players,         \* Kodi: what the player of each host shows
  library,         \* Kodi: the catalog the hosts share
  incoming,        \* Kodi: the entries a scan would create for the new files
  rpc,             \* commanding requests sent so far: [host, method, arg, id, aux]
  hist             \* what happened, for stating the properties
static == <<event, env, cfg, hosts, mode, incoming>>
locals == <<todo, old_movies, removed_movies, new_movies, before, pending>>
vars == <<static, locals, scanned, store, pc, players, library, rpc, hist>>

\* one request: arg is the notification title or the scanned directory, id the
\* catalog or player id, aux the resume position or the source entry's id
Req(h, m, a, i, x) == [host |-> h, method |-> m, arg |-> a, id |-> i, aux |-> x]

IsHost(i) == hosts[i] # None

\* the hosts a loop over self.hosts reaches before it touches a None entry
UpTo(n) == {i \in 1..n : \A j \in 1..i : IsHost(j)}
AnyNone(n) == \E i \in 1..n : ~IsHost(i)

\* ------------------------------------------------------- KodiRPC (one host)
\* _req raises APIError (connection refused, timeout, HTTP error) on a host
\* that is down; every caller catches it. A slow host answers but does not end
\* a scan or clean before the deadline; a busy host answers but fails the
\* requests that read Library.IsScanning
Modes == {"up", "down", "slow", "busy"}
Up(h) == mode[h] # "down"

Idle == [kind |-> "idle", type |-> "", item_id |-> 0, paused |-> FALSE]
NoItem == [kind |-> "noitem", type |-> "", item_id |-> 0, paused |-> FALSE]
Playing(type, id, paused) == [kind |-> "item", type |-> type, item_id |-> id, paused |-> paused]

\* active_players: [] when the request fails; player ids
active_players(h) == IF Up(h) /\ players[h].kind # "idle" THEN <<1>> ELSE <<>>

\* is_playing
is_playing(h) == active_players(h) # <<>>

\* get_player_item: None when the request fails or the answer has no item
get_player_item(h) ==
  IF Up(h) /\ players[h].kind = "item"
    THEN [item |-> TRUE, type |-> players[h].type, item_id |-> players[h].item_id]
    ELSE [item |-> FALSE, type |-> "", item_id |-> 0]

\* is_paused: speed == 0 of a playing host
is_paused(h) == is_playing(h) /\ players[h].paused

\* player_percent: 0.0 when the request fails
player_percent(h) == IF Up(h) THEN Position ELSE 0

\* KodiRPC.__init__ default; _create_host never passes disable_notifications
disable_notifications(h) == FALSE

\* KodiRPC.notify: sends unless notifications are disabled and not forced
host_notify(h, title, id, force) ==
  IF disable_notifications(h) /\ ~force THEN {}
  ELSE {Req(h, "GUI.ShowNotification", title, id, 0)}

\* how a host answers a scan or clean request: the request raises APIError,
\* the wait raises ScanTimeout, the scanning flag reads false, or the flag
\* cannot be read
ScanOutcomes == {"error", "timeout", "done", "unreadable"}
scan_outcome(h) ==
  CASE mode[h] = "down" -> "error"
    [] mode[h] = "slow" -> "timeout"
    [] mode[h] = "busy" -> "unreadable"
    [] OTHER -> "done"

\* scan_movie_dir / full_video_scan / clean_video_library: False when the request
\* raises APIError or _wait_for_video_scan raises ScanTimeout; is_scanning
\* answers False when the flag cannot be read, which ends the wait at once
scan_result(o) == o \in {"done", "unreadable"}

\* ------------------------------------------------ LibraryManager (all hosts)
\* LibraryManager.notify: every host in list order; a None entry raises
\* AttributeError. [raised, reqs]
notify(title, id) ==
  [raised |-> AnyNone(Len(hosts)),
   reqs |-> UNION {host_notify(hosts[i], title, id, FALSE) : i \in UpTo(Len(hosts))}]

\* one summary notification whatever the number of entries
C10_mut_notify_each(title, movies) == notify(title, 0)

\* for movie in movies: self.kodi.notify(title, msg=movie)
notify_each(title, movies) ==
  IF movies = <<>> THEN [raised |-> FALSE, reqs |-> {}]
  ELSE IF AnyNone(Len(hosts)) THEN notify(title, movies[1].movie_id)
  ELSE [raised |-> FALSE,
        reqs |-> UNION {notify(title, movies[k].movie_id).reqs : k \in DOMAIN movies}]

\* hosts_not_scanned evaluates x.library_scanned on every entry first
update_guis ==
  IF AnyNone(Len(hosts)) THEN [raised |-> TRUE, reqs |-> {}]
  ELSE [raised |-> FALSE,
        reqs |-> {Req(hosts[i], "VideoLibrary.Scan", "/does_not_exist/", 0, 0) :
                    i \in {j \in DOMAIN hosts : hosts[j] \notin scanned}}]

\* a loop that notes the first success and still goes through the whole list
C23_mut_FirstSuccess(ok) ==
  LET none == {i \in DOMAIN hosts : ~IsHost(i)}
      wins == {i \in DOMAIN hosts : IsHost(i) /\ ok[i]}
      last == IF none = {} THEN Len(hosts) ELSE CHOOSE i \in none : \A j \in none : i <= j
      good == \E i \in wins : i <= last
  IN [raised |-> AnyNone(last), ok |-> good,
      winner |-> IF good THEN hosts[CHOOSE i \in wins : \A j \in wins : i <= j] ELSE None,
      reached |-> UpTo(last)]

\* a loop "for host in self.hosts: if host.op(): return" where ok[i] tells
\* whether hosts[i] answers with success. [raised, ok, winner, reached]
FirstSuccess(ok) ==
  LET stop == {i \in DOMAIN hosts : ~IsHost(i) \/ ok[i]}
      last == IF stop = {} THEN Len(hosts) ELSE CHOOSE i \in stop : \A j \in stop : i <= j
      good == stop # {} /\ IsHost(last)
  IN [raised |-> AnyNone(last), ok |-> good,
      winner |-> IF good THEN hosts[last] ELSE None, reached |-> UpTo(last)]

\* a pass that never takes note of a success
C25_mut_Round(outs, skip_active) ==
  LET r == FirstSuccess([i \in DOMAIN hosts |->
                           ~(skip_active /\ outs[i].playing) /\ scan_result(outs[i].scan)])
  IN [raised |-> r.raised, ok |-> FALSE, winner |-> None, reached |-> r.reached,
      asked |-> {i \in r.reached : ~(skip_active /\ outs[i].playing)}]

\* a pass that falls through when the loop over the hosts ends without a host
\* having succeeded
C1_mut_Round(outs, skip_active) ==
  LET r == FirstSuccess([i \in DOMAIN hosts |->
                           ~(skip_active /\ outs[i].playing) /\ scan_result(outs[i].scan)])
  IN [raised |-> r.raised, ok |-> TRUE, winner |-> r.winner, reached |-> r.reached,
      asked |-> {i \in r.reached : ~(skip_active /\ outs[i].playing)}]

\* one pass of "for host in self.hosts" in scan_directory / full_scan /
\* clean_library; outs[i] tells whether hosts[i] is playing and how it answers
\* the request. [raised, ok, winner, reached, asked]
Round(outs, skip_active) ==
  LET r == FirstSuccess([i \in DOMAIN hosts |->
                           ~(skip_active /\ outs[i].playing) /\ scan_result(outs[i].scan)])
  IN [raised |-> r.raised, ok |-> r.ok, winner |-> r.winner, reached |-> r.reached,
      asked |-> {i \in r.reached : ~(skip_active /\ outs[i].playing)}]

\* what the hosts answer in one pass
Outs ==
  [i \in DOMAIN hosts |->
     IF IsHost(i) THEN [playing |-> is_playing(hosts[i]), scan |-> scan_outcome(hosts[i])]
     ELSE [playing |-> FALSE, scan |-> "error"]]

\* which hosts answer a request with success
Accepts == [i \in DOMAIN hosts |-> IsHost(i) /\ Up(hosts[i])]

\* get_movies_by_file / get_movies_by_dir / get_all_movies: the first host with a
\* non-empty answer wins. [raised, movies]
get_movies(found) ==
  LET r == FirstSuccess([i \in DOMAIN hosts |-> Accepts[i] /\ found # {}])
  IN [raised |-> r.raised, movies |-> IF r.ok THEN ById(found) ELSE <<>>]

\* a removal that is requested of every host, whoever accepted before
C12_mut_remove_movie(movie) ==
  LET r == FirstSuccess(Accepts)
  IN [raised |-> AnyNone(Len(hosts)), ok |-> r.ok,
      reqs |-> {Req(hosts[i], "VideoLibrary.RemoveMovie", "", movie.movie_id, 0) :
                  i \in UpTo(Len(hosts))},
      marked |-> IF r.ok THEN {r.winner} ELSE {}]

\* remove_movie(movie): first host to accept; KodiRPC.remove_movie marks the host
\* library_scanned. [raised, ok, reqs, marked]
remove_movie(movie) ==
  LET r == FirstSuccess(Accepts)
  IN [raised |-> r.raised, ok |-> r.ok,
      reqs |-> {Req(hosts[i], "VideoLibrary.RemoveMovie", "", movie.movie_id, 0) : i \in r.reached},
      marked |-> IF r.ok THEN {r.winner} ELSE {}]

\* copy_metadata(old, new): first host to accept set_movie_watched_state
copy_metadata(old_movie, new_movie) ==
  LET r == FirstSuccess(Accepts)
  IN [raised |-> r.raised, ok |-> r.ok,
      reqs |-> {Req(hosts[i], "VideoLibrary.SetMovieDetails", "", new_movie.movie_id,
                    old_movie.movie_id) : i \in r.reached}]

\* ------------------------------------------------------------ the store
Absent == [exists |-> FALSE, data |-> <<>>]
StoppedMovie(h, m, pos, paused) ==
  [host_name |-> h, movie |-> m, position |-> pos, paused |-> paused]

\* a _serialize that writes nothing
C31_mut_serialize(stopped_movies, io_ok) == store

\* _serialize: overwrite the file; an IOError is logged and the file is as before
serialize(stopped_movies, io_ok) ==
  IF io_ok THEN [exists |-> TRUE, data |-> stopped_movies] ELSE store

\* ------------------------------------------------------- stop_playback
\* the (host, player) pairs of the two nested loops, in order
RECURSIVE PlayerSteps(_)
PlayerSteps(i) ==
  IF i > Len(hosts) THEN <<>>
  ELSE (IF IsHost(i)
          THEN [k \in DOMAIN active_players(hosts[i]) |->
                  [h |-> i, player_id |-> active_players(hosts[i])[k]]]
          ELSE <<[h |-> i, player_id |-> 0]>>)
       \o PlayerSteps(i + 1)

\* a loop body that stops the player before it reads its state
C37_mut_stop_order(h) ==
  <<[op |-> "stop_player", host |-> h], [op |-> "is_paused", host |-> h],
    [op |-> "player_percent", host |-> h]>>

\* the calls made for a matching player, in the order of the loop body
stop_order(h) ==
  <<[op |-> "is_paused", host |-> h], [op |-> "player_percent", host |-> h],
    [op |-> "stop_player", host |-> h]>>

\* the calls after the loop: _serialize when store_result, then host.notify
\* for the hosts of the list that were stopped, in list order
RECURSIVE stop_tail(_, _, _)
stop_tail(i, names, store_result) ==
  IF i = 0 THEN (IF store_result THEN <<[op |-> "serialize", host |-> ""]>> ELSE <<>>)
                  \o stop_tail(1, names, store_result)
  ELSE IF i > Len(hosts) THEN <<>>
  ELSE (IF hosts[i] \in names THEN <<[op |-> "notify", host |-> hosts[i]]>> ELSE <<>>)
         \o stop_tail(i + 1, names, store_result)

RECURSIVE stop_loop(_, _, _)
\* the first loop of stop_playback. acc = [raised, stopped, reqs]
stop_loop(steps, movie, acc) ==
  IF steps = <<>> THEN acc
  ELSE LET s == Head(steps)
           h == hosts[s.h]
           item == get_player_item(h)
       IN IF ~IsHost(s.h) THEN [acc EXCEPT !.raised = TRUE]
          ELSE IF item.item /\ item.type # "movie" THEN stop_loop(Tail(steps), movie, acc)
          ELSE IF ~item.item THEN [acc EXCEPT !.raised = TRUE]
          ELSE IF item.item_id # movie.movie_id THEN stop_loop(Tail(steps), movie, acc)
          ELSE stop_loop(Tail(steps), movie,
                 [acc EXCEPT
                    !.stopped = @ \o <<StoppedMovie(h, movie, player_percent(h), is_paused(h))>>,
                    !.reqs = @ \cup {Req(h, "Player.Stop", "", s.player_id, 0)},
                    !.log = @ \o stop_order(h)])

\* stop_playback(movie, reason, store_result). [raised, stopped, reqs, store, log]
stop_playback(movie, store_result, io_ok) ==
  LET r == stop_loop(PlayerSteps(1), movie,
                     [raised |-> FALSE, stopped |-> <<>>, reqs |-> {}, log |-> <<>>])
      names == {r.stopped[k].host_name : k \in DOMAIN r.stopped}
  IN IF r.raised \/ r.stopped = <<>>
       THEN [raised |-> r.raised, stopped |-> r.stopped, reqs |-> r.reqs, store |-> store,
             log |-> r.log]
       ELSE [raised |-> FALSE, stopped |-> r.stopped,
             reqs |-> r.reqs \cup UNION {host_notify(hosts[i], StoppedTitle, 0, TRUE) :
                                           i \in {j \in DOMAIN hosts : hosts[j] \in names}},
             store |-> IF store_result THEN serialize(r.stopped, io_ok) ELSE store,
             log |-> r.log \o stop_tail(0, names, store_result)]

\* Kodi: a host that got Player.Stop has no active player any more
AfterStop(reqs) ==
  [h \in Names |-> IF \E q \in reqs : q.host = h /\ q.method = "Player.Stop"
                     THEN Idle ELSE players[h]]

\* ------------------------------------------------------- start_playback
\* ", ".join(stopped_movies): str.join raises TypeError on an item that is not
\* a str, and every item is a StoppedMovie
join_raises(items) == items # <<>>

\* KodiRPC.start_movie, then pause_player when the record was paused and a player
\* came up. [reqs, play]
start_movie(h, movie, rec) ==
  LET open == Req(h, "Player.Open", "", movie.movie_id, rec.position)
      pause == Req(h, "Player.PlayPause", "", 1, 0)
  IN IF rec.paused /\ Up(h) THEN [reqs |-> {open, pause}, play |-> <<open, pause>>]
     ELSE [reqs |-> {open}, play |-> <<open>>]

RECURSIVE restart_loop(_, _, _, _)
\* for host in self.hosts: for stopped_movie in stopped_movies: ...
\* t counts the (host, record) pairs. acc = [raised, reqs, play]
restart_loop(t, data, movie, acc) ==
  IF t > Len(hosts) * Len(data) THEN acc
  ELSE LET i == ((t - 1) \div Len(data)) + 1
           rec == data[((t - 1) % Len(data)) + 1]
       IN IF ~IsHost(i) THEN [acc EXCEPT !.raised = TRUE]
          ELSE IF rec.host_name # hosts[i] THEN restart_loop(t + 1, data, movie, acc)
          ELSE IF ~MovieEq(rec.movie, movie) THEN restart_loop(t + 1, data, movie, acc)
          ELSE LET r == start_movie(hosts[i], movie, rec)
               IN restart_loop(t + 1, data, movie,
                    [acc EXCEPT !.reqs = @ \cup r.reqs, !.play = @ \o r.play])

\* how reading the store file goes: it is read, open or read raises IOError,
\* or pickle.load rejects the content (UnpicklingError, EOFError)
ReadOutcomes == {"ok", "ioerror", "corrupt"}

\* _deserialize: read the file, then unlink it. Only IOError is caught: it
\* yields [] with the file left in place (a missing file is an IOError too);
\* an exception of pickle.load leaves the function. [raised, data, store]
deserialize(outcome) ==
  CASE ~store.exists -> [raised |-> FALSE, data |-> <<>>, store |-> store]
    [] outcome = "ok" -> [raised |-> FALSE, data |-> store.data, store |-> Absent]
    [] outcome = "ioerror" -> [raised |-> FALSE, data |-> <<>>, store |-> store]
    [] OTHER -> [raised |-> TRUE, data |-> <<>>, store |-> store]

\* start_playback(movie). [raised, store, reqs, play, loaded]
start_playback(movie, outcome) ==
  IF ~store.exists
    THEN [raised |-> FALSE, store |-> store, reqs |-> {}, play |-> <<>>, loaded |-> FALSE]
  ELSE LET d == deserialize(outcome)
       IN IF d.raised \/ join_raises(d.data)
            THEN [raised |-> TRUE, store |-> d.store, reqs |-> {}, play |-> <<>>,
                  loaded |-> TRUE]
            ELSE LET r == restart_loop(1, d.data, movie,
                                       [raised |-> FALSE, reqs |-> {}, play |-> <<>>])
                 IN [raised |-> r.raised, store |-> d.store, reqs |-> r.reqs,
                     play |-> r.play, loaded |-> TRUE]

\* Kodi: a host that got Player.Open plays that entry, paused after PlayPause
AfterStart(reqs) ==
  [h \in Names |->
     IF \E q \in reqs : q.host = h /\ q.method = "Player.Open" /\ Up(h)
       THEN LET q == CHOOSE x \in reqs : x.host = h /\ x.method = "Player.Open"
            IN Playing("movie", q.id, \E x \in reqs : x.host = h /\ x.method = "Player.PlayPause")
       ELSE players[h]]

\* ------------------------------------------------------------ the handlers
ToggleOn == cfg.notifications[Toggle(event)]
IsUpgradeDelete == event = "MovieFileDelete" /\ Lower(env.movie_file_delete_reason) = "upgrade"

\* a handler that notifies whatever the toggle says
C5_mut_PcNotify == "notify"

\* "Skip notifications if disabled ... return"
PcNotify == IF ToggleOn THEN "notify" ELSE "done"

\* after "Optionally, Clean Library"
PcAfterClean(new) ==
  CASE event = "DownloadNew" -> IF new = <<>> THEN "done" ELSE "gui"
    [] event \in {"DownloadUpgrade", "Rename"} -> "copy"
    [] OTHER -> "gui"

PcAfterScans(new) == IF cfg.clean_after_update THEN "clean" ELSE PcAfterClean(new)

\* a fallback that does not look at the toggle
C26_mut_PcAfterDirScan(new) ==
  IF new = <<>> THEN "full_begin" ELSE PcAfterScans(new)

\* if not new_movies and self.cfg.library.full_scan_fallback
PcAfterDirScan(new) ==
  IF new = <<>> /\ cfg.full_scan_fallback THEN "full_begin" ELSE PcAfterScans(new)

\* "Force library clean if manual removal failed", then the scan
PcAfterNfo(removed) ==
  IF event # "DownloadNew" /\ removed = <<>> /\ ~cfg.clean_after_update
    THEN "forced_clean" ELSE "scan_begin"

\* after the loop over the old entries
PcAfterLoop(removed) ==
  CASE event \in {"DownloadUpgrade", "Rename"} ->
         IF cfg.wait_for_nfo THEN "nfo" ELSE PcAfterNfo(removed)
    [] event = "MovieFileDelete" ->
         IF IsUpgradeDelete THEN "done"
         ELSE IF removed = <<>> /\ ~cfg.clean_after_update THEN "forced_clean"
         ELSE IF cfg.clean_after_update THEN "clean" ELSE "gui"
    [] OTHER -> IF cfg.clean_after_update THEN "clean" ELSE "gui"

\* a loop body that goes to the removal at once
C13_mut_ProcPc == "remove"

\* the body of the loop over the old entries: download_upgrade removes, the
\* other handlers stop playback first
ProcPc == IF event = "DownloadUpgrade" THEN "remove" ELSE "stop"

NextInLoop(olds, td, removed) ==
  IF olds # <<>> THEN ProcPc ELSE IF td # <<>> THEN "lookup" ELSE PcAfterLoop(removed)

\* where the handler of the event begins
Entry ==
  CASE event \in NotifyOnly -> "start"
    [] event = "DownloadNew" -> IF cfg.wait_for_nfo THEN "nfo" ELSE "scan_begin"
    [] OTHER -> IF todo = <<>> THEN PcAfterLoop(<<>>) ELSE "lookup"

\* -------------------------------------------------------------------- Init
\* [self._create_host(cfg, path_maps) for cfg in host_configs if cfg.enabled]:
\* None in the place of a host that did not answer the ping
HostLists ==
  UNION {{h \in [1..n -> {None} \cup Names] : \A i \in 1..n : h[i] \in {None, HostNames[i]}} :
           n \in 0..NumHosts}

\* a record an earlier event (MovieFileDelete, reason upgrade) left behind
Leftover == <<StoppedMovie("A", Movie(1, 1), Position, TRUE)>>

\* the toggle of the event and every other toggle the opposite
NotificationCfg(ev, b) == [t \in Toggles |-> (t = Toggle(ev)) = b]

\* what a player may show
PlayerStates ==
  {Idle, NoItem, Playing("episode", 1, FALSE)}
    \cup {Playing("movie", i, p) : i \in OldIds, p \in BOOLEAN}

\* the catalog entry of the i-th old file: scraped with its tmdb id, scraped
\* without one, or not in the catalog
LibChoices == [OldIds -> {"same", "none", "absent"}]
Library(sel, n) ==
  {Movie(i, IF sel[i] = "same" THEN i ELSE NoTmdb) : i \in {j \in 1..n : sel[j] # "absent"}}

\* the entry a scan creates for the k-th new file
InChoices == [OldIds -> TmdbIds]
Incoming(sel, m) == [k \in 1..m |-> Movie(MaxPaths + k, sel[k])]

\* the settings of a run; a run departs from the nominal run in the settings D
Dims(ev) ==
  CASE ev \in NotifyOnly -> {"toggle", "hosts"}
    [] ev = "DownloadNew" ->
         {"wait", "skip", "clean", "fallback", "toggle", "hosts", "mode", "players",
          "lib", "incoming", "store"}
    [] ev = "MovieFileDelete" ->
         {"skip", "clean", "toggle", "hosts", "mode", "players", "lib", "store"}
    [] ev = "MovieDelete" -> {"clean", "toggle", "hosts", "mode", "players", "lib", "store"}
    [] OTHER ->
         {"wait", "skip", "clean", "fallback", "toggle", "hosts", "mode", "players",
          "lib", "incoming", "store", "paths"}
\* download_new is the shortest handler: its runs may depart in more settings
MaxDevOf(ev, most, more) == IF ev = "DownloadNew" THEN most + more ELSE most
Departures(ev, most, more, only) ==
  {D \in SUBSET (Dims(ev) \cap only) : Cardinality(D) <= MaxDevOf(ev, most, more)}
Pick(D, d, all, nominal) == IF d \in D THEN all ELSE {nominal}

\* the paths Radarr reports: one new path per previous path for a rename, one
\* new file for a download
NominalPaths(ev) == IF ev = "Rename" THEN MaxPaths ELSE 1
PathCounts(ev) == IF ev \in {"DownloadUpgrade", "Rename"} THEN 0..MaxPaths ELSE {1}
NewFiles(ev, n) ==
  CASE ev = "Rename" -> n
    [] ev \in {"DownloadNew", "DownloadUpgrade"} -> 1
    [] OTHER -> 0
DirSize(ev, n) == IF ev \in {"DownloadNew", "MovieDelete"} THEN MaxPaths ELSE n
NominalLib(ev) == [i \in OldIds |-> IF ev = "DownloadNew" THEN "absent" ELSE "same"]

\* the latest pass of a retry loop: which hosts were asked, which reported
\* playing and were skipped, which one succeeded
NoPass == [op |-> "", asked |-> {}, skipped |-> {}, winner |-> None, answer |-> ""]

\* hist after a step that is not a pass of a retry loop
Quiet(h) == [h EXCEPT !.pass = NoPass]

\* the latest _deserialize call: the store before, the outcome of the read,
\* what was returned, whether it raised, the store after
NoLoad == [done |-> FALSE, had |-> Absent, outcome |-> "", got |-> <<>>, raised |-> FALSE,
           left |-> Absent]

Hist0 ==
  [scan_ok |-> FALSE, full_ok |-> FALSE, dir_returned |-> FALSE, copied |-> {},
   held |-> <<>>, restoring |-> FALSE, cleaned |-> FALSE, nfo_timeout |-> FALSE,
   zero_new |-> FALSE, snap |-> {}, stopped_all |-> <<>>, write_failed |-> FALSE,
   read_failed |-> FALSE, play |-> <<>>, pass |-> NoPass,
   scanners |-> {}, gui_done |-> FALSE, loads |-> 0, load |-> NoLoad, stop_ran |-> FALSE, stop_called |-> {}, stop_log |-> <<>>, matched |-> {}, dir_new |-> <<>>, dir_before |-> {}, dir_after |-> {}, full_returned |-> FALSE, store0 |-> Absent,
   full_before |-> {}, full_after |-> {}, recovered |-> {}, wrote |-> FALSE, shown |-> [h \in Names |-> Idle]]

\* the state in which a handler is entered, the run departing from the nominal
\* one in up to MaxDevOf(event, most, more) settings, all of them among only
World(most, more, only) ==
  /\ event \in EventKinds
  /\ \E D \in Departures(event, most, more, only) :
       /\ \E w \in Pick(D, "wait", BOOLEAN, FALSE), s \in Pick(D, "skip", BOOLEAN, FALSE),
             c \in Pick(D, "clean", BOOLEAN, FALSE), f \in Pick(D, "fallback", BOOLEAN, FALSE),
             t \in Pick(D, "toggle", BOOLEAN, TRUE) :
            cfg = [wait_for_nfo |-> w, skip_active |-> s, clean_after_update |-> c,
                   full_scan_fallback |-> f, notifications |-> NotificationCfg(event, t)]
       /\ hosts \in Pick(D, "hosts", HostLists, [i \in 1..NumHosts |-> HostNames[i]])
       /\ mode \in Pick(D, "mode", [Names -> Modes], [h \in Names |-> "up"])
       /\ players \in Pick(D, "players", [Names -> PlayerStates], [h \in Names |-> Idle])
       /\ store \in Pick(D, "store", {Absent, [exists |-> TRUE, data |-> Leftover]}, Absent)
       /\ \E n \in Pick(D, "paths", PathCounts(event), NominalPaths(event)),
             reason \in (IF event = "MovieFileDelete" THEN DeleteReasons ELSE {"Manual"}),
             deleted \in (IF event = "MovieDelete" THEN BOOLEAN ELSE {FALSE}) :
            /\ env = [old_paths |-> n, movie_file_paths |-> NewFiles(event, n),
                      movie_file_delete_reason |-> reason, movie_deleted_files |-> deleted]
            /\ \E sel \in Pick(D, "lib", LibChoices, NominalLib(event)) :
                 library = Library(sel, DirSize(event, n))
            /\ \E sel \in Pick(D, "incoming", InChoices, [k \in OldIds |-> k]) :
                 incoming = Incoming(sel, NewFiles(event, n))
  /\ scanned = {}
  /\ todo = IF event = "DownloadNew" \/ event \in NotifyOnly THEN <<>>
            ELSE [i \in 1..env.old_paths |-> i]
  /\ pc = Entry
  /\ old_movies = <<>>
  /\ removed_movies = <<>>
  /\ new_movies = <<>>
  /\ before = <<>>
  /\ pending = <<>>
  /\ rpc = {}
  /\ hist = [Hist0 EXCEPT !.shown = players, !.store0 = store]

AllDims == UNION {Dims(ev) : ev \in EventKinds}
Init == World(MaxDev, 1, AllDims)

\* --------------------------------------------------------------- actions
\* the entries get_movies_by_file(path) is about
AtPath(i) == {m \in library : m.movie_id = i}

\* grab, add_movie, health_issue, health_restored, application_update,
\* manual_interaction_required, test
SimpleEvent ==
  /\ pc = "start" /\ event \in NotifyOnly
  /\ IF ~ToggleOn THEN pc' = "done" /\ rpc' = rpc
     ELSE LET r == notify(Title(event), 0)
          IN /\ pc' = IF r.raised THEN "raised" ELSE "done"
             /\ rpc' = rpc \cup r.reqs
  /\ hist' = Quiet(hist)
  /\ UNCHANGED <<static, locals, scanned, store, players, library>>

\* get_movies_by_file(path) of the next path (get_movies_by_dir in delete_movie)
Lookup ==
  /\ pc = "lookup"
  /\ IF event = "MovieDelete" /\ ~env.movie_deleted_files
       THEN pc' = "done" /\ UNCHANGED <<todo, old_movies>>
       ELSE LET r == get_movies(IF event = "MovieDelete" THEN library ELSE AtPath(Head(todo)))
            IN IF r.raised THEN pc' = "raised" /\ UNCHANGED <<todo, old_movies>>
               ELSE /\ old_movies' = r.movies
                    /\ todo' = Tail(todo)
                    /\ pc' = NextInLoop(r.movies, Tail(todo), removed_movies)
  /\ hist' = [Quiet(hist) EXCEPT !.matched = @ \cup {m.movie_id : m \in SeqToSet(old_movies')}]
  /\ UNCHANGED <<static, removed_movies, new_movies, before, pending, scanned, store,
                 players, library, rpc>>

\* self.kodi.stop_playback(old_movie, reason[, store_result])
StopPlayback ==
  /\ pc = "stop"
  /\ LET movie == Head(old_movies)
     IN \E io_ok \in BOOLEAN :
          LET r == stop_playback(movie, event # "MovieDelete", io_ok)
          IN /\ rpc' = rpc \cup r.reqs
             /\ players' = AfterStop(r.reqs)
             /\ IF r.raised
                  THEN /\ pc' = "raised"
                       /\ hist' = [Quiet(hist) EXCEPT !.stopped_all = @ \o r.stopped,
                                                      !.stop_log = r.log,
                                                      !.stop_called = @ \cup {movie.movie_id}]
                       /\ UNCHANGED <<store, old_movies>>
                  ELSE /\ store' = r.store
                       /\ hist' = [Quiet(hist) EXCEPT
                                     !.stopped_all = @ \o r.stopped,
                                     !.stop_ran = TRUE,
                                     !.stop_log = r.log,
                                     !.stop_called = @ \cup {movie.movie_id},
                                     !.write_failed = @ \/ (r.stopped # <<>> /\ r.store = store
                                                              /\ event # "MovieDelete" /\ ~io_ok),
                                     !.wrote = @ \/ (r.stopped # <<>> /\ event # "MovieDelete"
                                                       /\ io_ok)]
                       /\ IF IsUpgradeDelete
                            THEN /\ old_movies' = Tail(old_movies)
                                 /\ pc' = NextInLoop(Tail(old_movies), todo, removed_movies)
                            ELSE pc' = "remove" /\ UNCHANGED old_movies
  /\ UNCHANGED <<static, todo, removed_movies, new_movies, before, pending, scanned, library>>

\* if self.kodi.remove_movie(mov): removed_movies.append(mov)
\* delete_movie_file calls self.kodi.remove_episode, which LibraryManager lacks
RemoveMovie ==
  /\ pc = "remove"
  /\ LET movie == Head(old_movies)
     IN IF event = "MovieFileDelete"
          THEN /\ pc' = "raised"
               /\ UNCHANGED <<scanned, old_movies, removed_movies, library, rpc>>
          ELSE LET r == remove_movie(movie)
                   removed == IF r.ok /\ event # "MovieDelete"
                                THEN Append(removed_movies, movie) ELSE removed_movies
               IN /\ rpc' = rpc \cup r.reqs
                  /\ IF r.raised
                       THEN /\ pc' = "raised"
                            /\ UNCHANGED <<scanned, old_movies, removed_movies, library>>
                       ELSE /\ scanned' = scanned \cup r.marked
                            /\ library' = IF r.ok THEN library \ AtPath(movie.movie_id) ELSE library
                            /\ removed_movies' = removed
                            /\ old_movies' = Tail(old_movies)
                            /\ pc' = NextInLoop(Tail(old_movies), todo, removed)
  /\ hist' = Quiet(hist)
  /\ UNCHANGED <<static, todo, new_movies, before, pending, store, players>>

\* a handler that logs NFOTimeout and goes on
C6_mut_WaitForNfo ==
  /\ pc = "nfo"
  /\ \E found \in BOOLEAN :
       /\ pc' = PcAfterNfo(removed_movies)
       /\ hist' = IF found THEN Quiet(hist)
                  ELSE [Quiet(hist) EXCEPT !.nfo_timeout = TRUE, !.snap = rpc]
  /\ UNCHANGED <<static, locals, scanned, store, players, library, rpc>>

\* _wait_for_nfo for every expected NFO file; NFOTimeout is logged and the
\* handler returns
WaitForNfo ==
  /\ pc = "nfo"
  /\ LET n == IF event = "Rename" THEN env.movie_file_paths ELSE 1
     IN \E found \in BOOLEAN :
          /\ n = 0 => found
          /\ IF found THEN pc' = PcAfterNfo(removed_movies) /\ hist' = Quiet(hist)
             ELSE pc' = "done" /\ hist' = [Quiet(hist) EXCEPT !.nfo_timeout = TRUE, !.snap = rpc]
  /\ UNCHANGED <<static, locals, scanned, store, players, library, rpc>>

\* what one pass leaves in hist
Pass(op, r, skip_active) ==
  [op |-> op, asked |-> {hosts[i] : i \in r.asked},
   skipped |-> {hosts[i] : i \in {j \in r.reached : skip_active /\ Outs[j].playing}},
   winner |-> r.winner,
   answer |-> IF r.winner # None
                THEN Outs[CHOOSE i \in r.asked : hosts[i] = r.winner].scan ELSE ""]

\* a host asked in this pass returned True from its scan or clean
RoundSuccess(r) == \E i \in r.asked : scan_result(Outs[i].scan)

\* the requests of one pass
PassReqs(r, method, dir) == {Req(hosts[i], method, dir, 0, 0) : i \in r.asked}

\* clean_library(skip_active): one pass over the hosts, again after 5 s if none
\* cleaned. skip_active is passed by the forced clean and by delete_movie_file
CleanSkip == (pc = "forced_clean" \/ event = "MovieFileDelete") /\ cfg.skip_active

PcAfterForcedClean == IF event = "MovieFileDelete" THEN "gui" ELSE "scan_begin"

\* Kodi: a clean drops the entries whose files are gone
Gone == IF event = "DownloadNew" THEN {} ELSE {m \in library : m.movie_id \in OldIds}

CleanLibrary ==
  /\ pc \in {"forced_clean", "clean"}
  /\ LET r == Round(Outs, CleanSkip)
     IN /\ hist' = [hist EXCEPT !.pass = Pass("clean", r, CleanSkip),
                                !.cleaned = @ \/ RoundSuccess(r)]
        /\ rpc' = rpc \cup PassReqs(r, "VideoLibrary.Clean", "")
        /\ library' = IF RoundSuccess(r) THEN library \ Gone ELSE library
        /\ IF r.raised THEN pc' = "raised" /\ UNCHANGED scanned
           ELSE /\ scanned' = IF r.ok THEN scanned \cup {r.winner} ELSE scanned
                /\ pc' = IF ~r.ok THEN pc
                         ELSE IF pc = "forced_clean" THEN PcAfterForcedClean
                         ELSE PcAfterClean(new_movies)
  /\ UNCHANGED <<static, locals, store, players>>

\* movies_before_scan = get_movies_by_dir(directory) / get_all_movies()
ScanBegin ==
  /\ pc \in {"scan_begin", "full_begin"}
  /\ LET r == get_movies(library)
     IN IF r.raised THEN pc' = "raised" /\ hist' = Quiet(hist) /\ UNCHANGED before
        ELSE /\ before' = r.movies
             /\ pc' = IF pc = "scan_begin" THEN "scan_round" ELSE "full_round"
             /\ hist' = IF pc = "full_begin"
                          THEN [Quiet(hist) EXCEPT !.full_before = library]
                          ELSE [Quiet(hist) EXCEPT !.dir_before = library]
  /\ UNCHANGED <<static, todo, old_movies, removed_movies, new_movies, pending, scanned,
                 store, players, library, rpc>>

\* one pass of "while not scanned: for host in self.hosts"; Kodi: a scan that
\* ran may or may not pick up the new files
ScanRound ==
  /\ pc \in {"scan_round", "full_round"}
  /\ LET r == Round(Outs, cfg.skip_active)
         op == IF pc = "scan_round" THEN "scan_dir" ELSE "scan_full"
         dir == IF pc = "scan_round" THEN "movie_file_dir" ELSE ""
     IN /\ hist' = [hist EXCEPT !.pass = Pass(op, r, cfg.skip_active),
                                !.scan_ok = @ \/ (pc = "scan_round" /\ RoundSuccess(r)),
                                !.full_ok = @ \/ (pc = "full_round" /\ RoundSuccess(r)),
                                !.scanners = IF r.ok THEN @ \cup {r.winner} ELSE @]
        /\ rpc' = rpc \cup PassReqs(r, "VideoLibrary.Scan", dir)
        /\ \E picked \in (IF RoundSuccess(r) THEN BOOLEAN ELSE {FALSE}) :
             library' = IF picked THEN library \cup SeqToSet(incoming) ELSE library
        /\ IF r.raised THEN pc' = "raised" /\ UNCHANGED scanned
           ELSE /\ scanned' = IF r.ok THEN scanned \cup {r.winner} ELSE scanned
                /\ pc' = IF ~r.ok THEN pc
                         ELSE IF pc = "scan_round" THEN "scan_end" ELSE "full_end"
  /\ UNCHANGED <<static, locals, store, players>>

\* movies_after_scan and the returned difference; the handler's next step
ScanEnd ==
  /\ pc \in {"scan_end", "full_end"}
  /\ LET r == get_movies(library)
         new == SelectList(r.movies, before)
         next == IF pc = "scan_end" THEN PcAfterDirScan(new) ELSE PcAfterScans(new)
     IN IF r.raised
          THEN pc' = "raised" /\ hist' = Quiet(hist) /\ UNCHANGED <<new_movies, before>>
          ELSE /\ new_movies' = new
               /\ before' = <<>>
               /\ pc' = next
               /\ hist' = [Quiet(hist) EXCEPT
                             !.dir_returned = @ \/ pc = "scan_end",
                             !.dir_new = IF pc = "scan_end" THEN new ELSE @,
                             !.dir_after = IF pc = "scan_end" THEN library ELSE @,
                             !.full_returned = @ \/ pc = "full_end",
                             !.full_after = IF pc = "full_end" THEN library ELSE @,
                             !.zero_new = new = <<>> /\ next # "full_begin",
                             !.snap = IF new = <<>> /\ next # "full_begin" THEN rpc ELSE @]
  /\ UNCHANGED <<static, todo, old_movies, removed_movies, pending, scanned, store, players,
                 library, rpc>>

\* the (removed, new) pairs of the two nested loops, in order
AllPairs(rs, ns) ==
  [t \in 1..(Len(rs) * Len(ns)) |->
     [old |-> rs[((t - 1) \div Len(ns)) + 1], new |-> ns[((t - 1) % Len(ns)) + 1]]]

\* if removed_movie == new_movie
Matching(rs, ns) == SelectSeq(AllPairs(rs, ns), LAMBDA p : MovieEq(p.old, p.new))

\* "reapply metadata from old library entries"
CopyMetadata ==
  /\ pc = "copy"
  /\ LET ps == Matching(removed_movies, new_movies)
         res == [t \in DOMAIN ps |-> copy_metadata(ps[t].old, ps[t].new)]
         bad == {t \in DOMAIN ps : res[t].raised}
         done == {t \in DOMAIN ps : \A u \in bad : t <= u}
     IN /\ rpc' = rpc \cup UNION {res[t].reqs : t \in done}
        /\ hist' = [Quiet(hist) EXCEPT !.copied = {<<ps[t].old, ps[t].new>> : t \in done}]
        /\ pc' = IF bad # {} THEN "raised" ELSE "gui"
  /\ UNCHANGED <<static, locals, scanned, store, players, library>>

PcAfterGui ==
  IF event \in {"DownloadUpgrade", "Rename"} /\ new_movies # <<>> THEN "restart" ELSE PcNotify

\* self.kodi.update_guis()
UpdateGuis ==
  /\ pc = "gui"
  /\ LET r == update_guis
     IN /\ rpc' = rpc \cup r.reqs
        /\ pc' = IF r.raised THEN "raised" ELSE PcAfterGui
        /\ pending' = IF r.raised THEN pending ELSE new_movies
        /\ hist' = IF r.raised THEN Quiet(hist)
                   ELSE IF event \notin {"DownloadUpgrade", "Rename"}
                     THEN [Quiet(hist) EXCEPT !.gui_done = TRUE]
                   ELSE [Quiet(hist) EXCEPT !.gui_done = TRUE, !.restoring = TRUE,
                                            !.held = IF store.exists THEN store.data ELSE <<>>]
  /\ UNCHANGED <<static, todo, old_movies, removed_movies, new_movies, before, scanned,
                 store, players, library>>

\* self.kodi.start_playback(movie) for the next new entry
StartPlayback ==
  /\ pc = "restart"
  /\ \E outcome \in (IF store.exists THEN ReadOutcomes ELSE {"ok"}) :
       LET r == start_playback(Head(pending), outcome)
           d == deserialize(outcome)
       IN /\ store' = r.store
          /\ rpc' = rpc \cup r.reqs
          /\ players' = AfterStart(r.reqs)
          /\ hist' = [Quiet(hist) EXCEPT
                        !.play = @ \o r.play,
                        !.read_failed = @ \/ (store.exists /\ outcome # "ok"),
                        !.loads = IF r.loaded THEN @ + 1 ELSE @,
                        !.load = IF r.loaded
                                   THEN [done |-> TRUE, had |-> store, outcome |-> outcome,
                                         got |-> d.data, raised |-> d.raised, left |-> d.store]
                                   ELSE @]
          /\ IF r.raised THEN pc' = "raised" /\ UNCHANGED pending
             ELSE /\ pending' = Tail(pending)
                  /\ pc' = IF Tail(pending) = <<>> THEN PcNotify ELSE "restart"
  /\ UNCHANGED <<static, todo, old_movies, removed_movies, new_movies, before, scanned,
                 library>>

\* the handler's closing notification
Notify ==
  /\ pc = "notify"
  /\ LET r == CASE event = "MovieDelete" -> notify(Title(event), 0)
                [] event = "MovieFileDelete" -> notify_each(Title(event), removed_movies)
                [] OTHER -> notify_each(Title(event), new_movies)
     IN /\ rpc' = rpc \cup r.reqs
        /\ pc' = IF r.raised THEN "raised" ELSE "done"
  /\ hist' = Quiet(hist)
  /\ UNCHANGED <<static, locals, scanned, store, players, library>>

Next ==
  \/ SimpleEvent
  \/ Lookup
  \/ StopPlayback
  \/ RemoveMovie
  \/ WaitForNfo
  \/ CleanLibrary
  \/ ScanBegin
  \/ ScanRound
  \/ ScanEnd
  \/ CopyMetadata
  \/ UpdateGuis
  \/ StartPlayback
  \/ Notify

Spec == Init /\ [][Next]_vars

\* ------------------------------------------------------------- the retries
\* "Wait 5 seconds before trying all hosts again": while the loop sleeps after
\* a pass in which no host succeeded, a host that was down may come back
Recover ==
  /\ pc \in {"forced_clean", "clean", "scan_round", "full_round"}
  /\ hist.pass.op # "" /\ hist.pass.winner = None
  /\ \E h \in Names :
       /\ mode[h] = "down"
       /\ mode' = [mode EXCEPT ![h] = "up"]
       /\ hist' = [hist EXCEPT !.recovered = @ \cup {h}]
  /\ UNCHANGED <<event, env, cfg, hosts, incoming, locals, scanned, store, pc, players,
                 library, rpc>>

LiveNext == Next \/ Recover

\* the handler keeps running, and a host that is down while the loops retry
\* comes back in the end
\* the runs followed to their end depart in one setting less, among the
\* settings the retry loops depend on
LoopDims == {"wait", "skip", "clean", "fallback", "hosts", "mode", "players"}
LiveInit == World(MaxDev - 1, 0, LoopDims)

LiveSpec == LiveInit /\ [][LiveNext]_vars /\ WF_vars(Next) /\ WF_vars(Recover)

\* ------------------------------------------------- KodiRPC.pause_player
\* pause_player(player_id, max_retries = 3) on its own: start_playback calls it
\* for a record that was paused, once start_movie has returned a player
max_retries == 3

\* how a host takes one Player.PlayPause: the request raises APIError, the
\* player toggles between playing and paused, or the player is not ready and
\* stays as it is; the answer carries the speed the player then has
PauseOutcomes == {"error", "toggled", "ignored"}
AfterPlayPause(p, out) == IF out = "toggled" THEN [p EXCEPT !.paused = ~@] ELSE p
Speed(p) == IF p.paused THEN 0 ELSE 1

\* a loop that goes on to the next request whatever the speed reported
C19_mut_pause_next(out, speed, n) ==
  IF out = "error" THEN "returned"
  ELSE IF n = max_retries THEN "gave_up" ELSE "pause"

\* the loop body after the n-th request: return on APIError, return on speed
\* 0, otherwise the next round, and the warning after max_retries rounds
pause_next(out, speed, n) ==
  IF out = "error" THEN "returned"
  ELSE IF speed = 0 THEN "returned"
  ELSE IF n = max_retries THEN "gave_up" ELSE "pause"

\* the host and the player pause_player is called for: the movie start_movie
\* has just opened, playing or still paused
PauseInit ==
  /\ event = "Rename"
  /\ env = [old_paths |-> 0, movie_file_paths |-> 0, movie_file_delete_reason |-> "Manual",
            movie_deleted_files |-> FALSE]
  /\ cfg = [wait_for_nfo |-> FALSE, skip_active |-> FALSE, clean_after_update |-> FALSE,
            full_scan_fallback |-> FALSE, notifications |-> NotificationCfg("Rename", TRUE)]
  /\ hosts \in {<<h>> : h \in Names}
  /\ mode = [h \in Names |-> "up"]
  /\ \E id \in NewIds, p \in BOOLEAN, others \in {Idle, NoItem, Playing("episode", 1, FALSE)} :
       players = [h \in Names |-> IF h = hosts[1] THEN Playing("movie", id, p) ELSE others]
  /\ store = Absent
  /\ library = {}
  /\ incoming = <<>>
  /\ scanned = {}
  /\ todo = <<>> /\ old_movies = <<>> /\ removed_movies = <<>> /\ new_movies = <<>>
  /\ before = <<>> /\ pending = <<>>
  /\ pc = "pause"
  /\ rpc = {}
  /\ hist = [tries |-> 0, answers |-> <<>>]

\* one round of "for _ in range(max_retries)"
PausePlayer ==
  /\ pc = "pause"
  /\ \E out \in PauseOutcomes :
       LET h == hosts[1]
           n == hist.tries + 1
           after == AfterPlayPause(players[h], out)
       IN /\ rpc' = rpc \cup {Req(h, "Player.PlayPause", "", 1, n)}
          /\ players' = [players EXCEPT ![h] = after]
          /\ hist' = [tries |-> n,
                      answers |-> Append(hist.answers,
                                         IF out = "error" THEN "error"
                                         ELSE IF Speed(after) = 0 THEN "zero" ELSE "nonzero")]
          /\ pc' = pause_next(out, Speed(after), n)
  /\ UNCHANGED <<static, locals, scanned, store, library>>

PauseNext == PausePlayer

PauseSpec == PauseInit /\ [][PauseNext]_vars

\* ------------------------------------------ KodiRPC.platform and _map_path
\* the host's path translation on its own: scan_movie_dir, get_movies_by_dir
\* and get_movies_by_file each begin with self._map_path(path)
MaxCalls == 3        \* calls of _map_path in one run at most
MaxLen == 4          \* characters of a Radarr path at most

\* models.Platform; NoPlatform is the None that __init__ stores in _platform
Platform == {"ANDROID", "DARWIN", "IOS", "LINUX", "OSX", "TVOS", "UWP", "WINDOWS", "UNKNOWN"}
NoPlatform == "unset"

\* what one XBMC.GetInfoBooleans is answered with: the request raises APIError,
\* no boolean is true, or the first true boolean names a platform
ProbeOutcomes == {"error", "none"} \cup (Platform \ {"UNKNOWN"})

\* the platform property: [platform it returns, _platform afterwards, whether
\* a request was sent]; a platform found by the probe is returned, not stored
platform(cached, outcome) ==
  IF cached # NoPlatform
    THEN [value |-> cached, cache |-> cached, probed |-> FALSE]
  ELSE IF outcome \in {"error", "none"}
    THEN [value |-> "UNKNOWN", cache |-> "UNKNOWN", probed |-> TRUE]
  ELSE [value |-> outcome, cache |-> cached, probed |-> TRUE]

\* is_posix
is_posix(p) == p \notin {"WINDOWS", "UNKNOWN"}

\* paths are sequences of characters
Chars == {"/", "a", "b"}
\* the paths Radarr hands over: absolute, without a doubled separator
RadarrPaths ==
  {s \in UNION {[1..k -> Chars] : k \in 1..MaxLen} :
     /\ s[1] = "/"
     /\ \A i \in 1..(Len(s) - 1) : ~(s[i] = "/" /\ s[i + 1] = "/")}
\* the prefixes of a path mapping: absolute, two characters, no trailing
\* separator
MapEnds == {s \in [1..2 -> Chars] : s[1] = "/" /\ s[2] # "/"}
PathMaps == {<<>>} \cup {<<[radarr |-> a, kodi |-> b]>> : a, b \in MapEnds}
              \cup {<<[radarr |-> a, kodi |-> b], [radarr |-> b, kodi |-> a]>> : a, b \in MapEnds}

\* old starts at position i of s
OccursAt(old, s, i) ==
  /\ i + Len(old) - 1 <= Len(s)
  /\ \A k \in 1..Len(old) : s[i + k - 1] = old[k]
\* Python's "old in s"
Contains(old, s) == \E i \in 1..Len(s) : OccursAt(old, s, i)

\* str.replace(old, new): every occurrence, left to right, not overlapping
RECURSIVE replace(_, _, _)
replace(s, old, new) ==
  IF s = <<>> THEN <<>>
  ELSE IF OccursAt(old, s, 1)
    THEN new \o replace(SubSeq(s, Len(old) + 1, Len(s)), old, new)
  ELSE <<Head(s)>> \o replace(Tail(s), old, new)

\* str(PurePosixPath(s)) of an absolute path that does not begin with two
\* separators: repeated separators collapse and a trailing one is dropped
RECURSIVE Collapse(_)
Collapse(s) ==
  IF Len(s) <= 1 THEN s
  ELSE LET front == Collapse(SubSeq(s, 1, Len(s) - 1))
       IN IF s[Len(s)] = "/" /\ s[Len(s) - 1] = "/" THEN front ELSE Append(front, s[Len(s)])
Squeeze(s) ==
  LET c == Collapse(s)
  IN IF Len(c) > 1 /\ c[Len(c)] = "/" THEN SubSeq(c, 1, Len(c) - 1) ELSE c
\* str(PureWindowsPath(s)) of such a path: the same with backslashes
Backslashes(s) == [i \in DOMAIN s |-> IF s[i] = "/" THEN "\\" ELSE s[i]]
Render(posix, s) == IF posix THEN Squeeze(s) ELSE Backslashes(Squeeze(s))

\* the loop of _map_path: the first mapping whose source is in the path
out_str(maps, path) ==
  LET hits == {i \in DOMAIN maps : Contains(maps[i].radarr, path)}
  IN IF hits = {} THEN path
     ELSE LET m == maps[CHOOSE i \in hits : \A j \in hits : i <= j]
          IN replace(path, m.radarr, m.kodi)

\* _map_path
_map_path(maps, path, posix) == Render(posix, out_str(maps, path))

\* a host just built, with its path maps; the answer it gives to a probe that
\* gets through
MapInit ==
  /\ event = "Rename"
  /\ env = [old_paths |-> 0, movie_file_paths |-> 0, movie_file_delete_reason |-> "Manual",
            movie_deleted_files |-> FALSE]
  /\ cfg = [wait_for_nfo |-> FALSE, skip_active |-> FALSE, clean_after_update |-> FALSE,
            full_scan_fallback |-> FALSE, notifications |-> NotificationCfg("Rename", TRUE)]
  /\ hosts = <<HostNames[1]>>
  /\ mode = [h \in Names |-> "up"]
  /\ players = [h \in Names |-> Idle]
  /\ store = Absent
  /\ library = {}
  /\ incoming = <<>>
  /\ scanned = {}
  /\ todo = <<>> /\ old_movies = <<>> /\ removed_movies = <<>> /\ new_movies = <<>>
  /\ before = <<>> /\ pending = <<>>
  /\ pc = "map"
  /\ rpc = {}
  /\ \E maps \in PathMaps, boolean \in ProbeOutcomes \ {"error"} :
       hist = [_platform |-> NoPlatform, path_maps |-> maps, boolean |-> boolean,
               calls |-> 0, path |-> <<>>, posix |-> FALSE, out |-> <<>>]

\* one call of _map_path: is_posix reads the platform property once
MapPath ==
  /\ pc = "map" /\ hist.calls < MaxCalls
  /\ \E path \in RadarrPaths, outcome \in {"error", hist.boolean} :
       LET r == platform(hist._platform, outcome)
           n == hist.calls + 1
       IN /\ rpc' = IF r.probed
                      THEN rpc \cup {Req(hosts[1], "XBMC.GetInfoBooleans", "", 0, n)}
                      ELSE rpc
          /\ hist' = [hist EXCEPT !._platform = r.cache, !.calls = n, !.path = path,
                                  !.posix = is_posix(r.value),
                                  !.out = _map_path(hist.path_maps, path, is_posix(r.value))]
  /\ UNCHANGED <<static, locals, scanned, store, pc, players, library>>

MapNext == MapPath

MapSpec == MapInit /\ [][MapNext]_vars

\* ------------------------------------------------------- radarr.Events
\* Events(value) on its own, as RadarrEnvironment calls it for
\* Radarr_EventType; a value is a sequence of characters
LowerCase == <<"a", "b", "c", "d", "e", "f", "g", "h", "i", "j", "k", "l", "m", "n", "o", "p", "q", "r", "s", "t", "u", "v", "w", "x", "y", "z">>
UpperCase == <<"A", "B", "C", "D", "E", "F", "G", "H", "I", "J", "K", "L", "M", "N", "O", "P", "Q", "R", "S", "T", "U", "V", "W", "X", "Y", "Z">>
\* str.upper(), character by character
upper_char(c) ==
  IF \E i \in DOMAIN LowerCase : LowerCase[i] = c
    THEN UpperCase[CHOOSE i \in DOMAIN LowerCase : LowerCase[i] = c]
    ELSE c
upper(s) == [i \in DOMAIN s |-> upper_char(s[i])]
\* a letter in the other case
other_case(c) ==
  IF \E i \in DOMAIN UpperCase : UpperCase[i] = c
    THEN LowerCase[CHOOSE i \in DOMAIN UpperCase : UpperCase[i] = c]
    ELSE upper_char(c)

\* the members of Events and their values
Members == {"ON_GRAB", "ON_DOWNLOAD", "ON_RENAME", "ON_MOVIE_ADD", "ON_MOVIE_DELETE", "ON_MOVIE_FILE_DELETE", "ON_HEALTH_ISSUE", "ON_HEALTH_RESTORED", "ON_APPLICATION_UPDATE", "ON_MANUAL_INTERACTION_REQUIRED", "ON_TEST", "UNKNOWN"}
MemberValue(m) ==
  CASE
       m = "ON_GRAB" -> <<"G", "r", "a", "b">>
    [] m = "ON_DOWNLOAD" -> <<"D", "o", "w", "n", "l", "o", "a", "d">>
    [] m = "ON_RENAME" -> <<"R", "e", "n", "a", "m", "e">>
    [] m = "ON_MOVIE_ADD" -> <<"M", "o", "v", "i", "e", "A", "d", "d", "e", "d">>
    [] m = "ON_MOVIE_DELETE" -> <<"M", "o", "v", "i", "e", "D", "e", "l", "e", "t", "e">>
    [] m = "ON_MOVIE_FILE_DELETE" -> <<"M", "o", "v", "i", "e", "F", "i", "l", "e", "D", "e", "l", "e", "t", "e">>
    [] m = "ON_HEALTH_ISSUE" -> <<"H", "e", "a", "l", "t", "h", "I", "s", "s", "u", "e">>
    [] m = "ON_HEALTH_RESTORED" -> <<"H", "e", "a", "l", "t", "h", "R", "e", "s", "t", "o", "r", "e", "d">>
    [] m = "ON_APPLICATION_UPDATE" -> <<"A", "p", "p", "l", "i", "c", "a", "t", "i", "o", "n", "U", "p", "d", "a", "t", "e">>
    [] m = "ON_MANUAL_INTERACTION_REQUIRED" -> <<"M", "a", "n", "u", "a", "l", "I", "n", "t", "e", "r", "a", "c", "t", "i", "o", "n", "R", "e", "q", "u", "i", "r", "e", "d">>
    [] m = "ON_TEST" -> <<"T", "e", "s", "t">>
    [] m = "UNKNOWN" -> <<"U", "n", "k", "n", "o", "w", "n">>

\* a member's value with the characters at the positions S in the other case
Flipped(v, S) == [i \in DOMAIN v |-> IF i \in S THEN other_case(v[i]) ELSE v[i]]
\* the values Events is called with: the members' values as they are, with
\* one or two letters or every letter in the other case and in upper case, and
\* strings that are no member's value in any case
EventValues ==
  UNION {LET v == MemberValue(m)
         IN {Flipped(v, S) : S \in {{}} \cup {{i, j} : i, j \in DOMAIN v}}
              \cup {upper(v), Flipped(v, DOMAIN v)}
              \cup {SubSeq(v, 1, Len(v) - 1), Append(v, "s"), <<"_">> \o v,
                     [v EXCEPT ![1] = "x"]} : m \in Members}
    \cup {<<>>, <<"O", "N", "_", "G", "R", "A", "B">>, <<"G", "r", "a", "b", " ">>}

\* a lookup that only knows the exact values
C30_mut__missing_(value) == "UNKNOWN"

\* Events._missing_: the member whose value equals the value in upper case,
\* UNKNOWN when there is none
_missing_(value) ==
  LET found == {m \in Members : upper(MemberValue(m)) = upper(value)}
  IN IF found # {} THEN CHOOSE m \in found : TRUE ELSE "UNKNOWN"

\* Events(value): the member with exactly this value, else what _missing_
\* returns; Enum raises ValueError when that is not a member
Events(value) ==
  LET exact == {m \in Members : MemberValue(m) = value}
      other == _missing_(value)
  IN IF exact # {} THEN [member |-> CHOOSE m \in exact : TRUE, raised |-> FALSE]
     ELSE IF other \in Members THEN [member |-> other, raised |-> FALSE]
     ELSE [member |-> "", raised |-> TRUE]

\* before Radarr_EventType is parsed
EventsInit ==
  /\ event = "Test"
  /\ env = [old_paths |-> 0, movie_file_paths |-> 0, movie_file_delete_reason |-> "Manual",
            movie_deleted_files |-> FALSE]
  /\ cfg = [wait_for_nfo |-> FALSE, skip_active |-> FALSE, clean_after_update |-> FALSE,
            full_scan_fallback |-> FALSE, notifications |-> NotificationCfg("Test", TRUE)]
  /\ hosts = <<HostNames[1]>>
  /\ mode = [h \in Names |-> "up"]
  /\ players = [h \in Names |-> Idle]
  /\ store = Absent
  /\ library = {}
  /\ incoming = <<>>
  /\ scanned = {}
  /\ todo = <<>> /\ old_movies = <<>> /\ removed_movies = <<>> /\ new_movies = <<>>
  /\ before = <<>> /\ pending = <<>>
  /\ pc = "parse"
  /\ rpc = {}
  /\ hist = [value |-> <<>>, member |-> "", raised |-> FALSE, parsed |-> FALSE]

\* self.__setattr__(attr.name, Events(value))
ParseEvent ==
  /\ pc = "parse"
  /\ \E value \in EventValues :
       LET r == Events(value)
       IN hist' = [value |-> value, member |-> r.member, raised |-> r.raised, parsed |-> TRUE]
  /\ pc' = IF hist'.raised THEN "raised" ELSE "parsed"
  /\ UNCHANGED <<static, locals, scanned, store, players, library, rpc>>

EventsNext == ParseEvent

EventsSpec == EventsInit /\ [][EventsNext]_vars

\* ------------------------------------------ two events sharing the store
\* two runs of the script, each for the rename of one file, over the one
\* PICKLE_PATH: stop_playback of the old entry, then start_playback of the new
\* one. Radarr starts the runs one after the other, or at the same time
Events2 == {1, 2}
SharedInit ==
  /\ event = "Rename"
  /\ env = [old_paths |-> 1, movie_file_paths |-> 1, movie_file_delete_reason |-> "Manual",
            movie_deleted_files |-> FALSE]
  /\ cfg = [wait_for_nfo |-> FALSE, skip_active |-> FALSE, clean_after_update |-> FALSE,
            full_scan_fallback |-> FALSE, notifications |-> NotificationCfg("Rename", TRUE)]
  /\ hosts = [i \in 1..NumHosts |-> HostNames[i]]
  /\ mode = [h \in Names |-> "up"]
  /\ players \in [Names -> {Idle} \cup {Playing("movie", id, p) : id \in OldIds, p \in BOOLEAN}]
  /\ store = Absent
  /\ library = {}
  /\ incoming = <<>>
  /\ scanned = {}
  /\ todo = <<>> /\ old_movies = <<>> /\ removed_movies = <<>> /\ new_movies = <<>>
  /\ before = <<>> /\ pending = <<>>
  /\ pc = "shared"
  /\ rpc = {}
  /\ \E concurrent \in BOOLEAN, ids \in [Events2 -> OldIds] :
       hist = [concurrent |-> concurrent, id |-> ids,
               at |-> [e \in Events2 |-> "stop"],
               saved |-> [e \in Events2 |-> <<>>],
               loaded |-> [e \in Events2 |-> <<>>],
               lost |-> [e \in Events2 |-> ""],
               opened |-> [e \in Events2 |-> FALSE]]

\* the next step of event e: stop_playback(old_movie) with its _serialize, the
\* PICKLE_PATH.exists() test of start_playback, and the rest of start_playback
\* with its _deserialize. Run one after the other, an event starts only once
\* the other has not begun or has ended
Shared(e) ==
  LET o == 3 - e
      old == Movie(hist.id[e], hist.id[e])
      new == Movie(MaxPaths + hist.id[e], hist.id[e])
      waits == hist.saved[o] # <<>> /\ hist.at[o] \in {"check", "load"}
                 /\ store.exists /\ store.data = hist.saved[o]
  IN /\ pc = "shared"
     /\ hist.concurrent \/ hist.at[o] \in {"stop", "done", "raised"}
     /\ CASE hist.at[e] = "stop" ->
               LET r == stop_playback(old, TRUE, TRUE)
               IN /\ store' = r.store
                  /\ players' = AfterStop(r.reqs)
                  /\ rpc' = rpc \cup r.reqs
                  /\ hist' = [hist EXCEPT !.at[e] = "check", !.saved[e] = r.stopped,
                                          !.lost[o] = IF waits /\ r.stopped # <<>>
                                                        THEN "overwritten" ELSE @]
          [] hist.at[e] = "check" ->
               /\ hist' = [hist EXCEPT !.at[e] = IF store.exists THEN "load" ELSE "done"]
               /\ UNCHANGED <<store, players, rpc>>
          [] hist.at[e] = "load" ->
               LET r == start_playback(new, "ok")
               IN /\ store' = r.store
                  /\ players' = AfterStart(r.reqs)
                  /\ rpc' = rpc \cup r.reqs
                  /\ hist' = [hist EXCEPT !.at[e] = IF r.raised THEN "raised" ELSE "done",
                                          !.loaded[e] = deserialize("ok").data,
                                          !.opened[e] = r.reqs # {},
                                          !.lost[o] = IF waits THEN "cleared" ELSE @]
          [] OTHER -> FALSE
     /\ UNCHANGED <<static, locals, scanned, pc, library>>

SharedNext == \E e \in Events2 : Shared(e)

SharedSpec == SharedInit /\ [][SharedNext]_vars

\* --------------------------------------------------- KodiRPC.start_movie
\* start_movie(movie_id, position) on its own: Player.Open, then the loop that
\* polls the active players until one shows the movie or 5 seconds are over
Deadline == 5
MaxStep == 2         \* seconds one round of the polling loop takes at most

\* a loop that takes any active player for the one it waits for
C38_mut_start_poll(h, movie_id) ==
  IF active_players(h) # <<>> THEN "player" ELSE "again"

\* for player in self.active_players: the player whose item is the movie
start_poll(h, movie_id) ==
  LET item == get_player_item(h)
  IN IF /\ active_players(h) # <<>>
        /\ item.item /\ item.type = "movie" /\ item.item_id = movie_id
       THEN "player" ELSE "again"

\* a host and the movie start_playback asks it to open
StartInit ==
  /\ event = "Rename"
  /\ env = [old_paths |-> 0, movie_file_paths |-> 0, movie_file_delete_reason |-> "Manual",
            movie_deleted_files |-> FALSE]
  /\ cfg = [wait_for_nfo |-> FALSE, skip_active |-> FALSE, clean_after_update |-> FALSE,
            full_scan_fallback |-> FALSE, notifications |-> NotificationCfg("Rename", TRUE)]
  /\ hosts \in {<<h>> : h \in Names}
  /\ mode \in [Names -> {"up", "down"}]
  /\ players \in [Names -> {Idle, Playing("episode", 1, FALSE)}]
  /\ store = Absent
  /\ library = {}
  /\ incoming = <<>>
  /\ scanned = {}
  /\ todo = <<>> /\ old_movies = <<>> /\ removed_movies = <<>> /\ new_movies = <<>>
  /\ before = <<>> /\ pending = <<>>
  /\ pc = "open"
  /\ rpc = {}
  /\ \E id \in OldIds :
       hist = [movie_id |-> id, rounds |-> 0, elapsed |-> 0, returned |-> "",
               seen |-> get_player_item(hosts[1])]

\* self._req("Player.Open"): None on APIError, else the loop is entered
OpenMovie ==
  /\ pc = "open"
  /\ rpc' = rpc \cup {Req(hosts[1], "Player.Open", "", hist.movie_id, Position)}
  /\ IF Up(hosts[1])
       THEN pc' = "poll" /\ hist' = hist
       ELSE pc' = "returned" /\ hist' = [hist EXCEPT !.returned = "none"]
  /\ UNCHANGED <<static, locals, scanned, store, players, library>>

\* one round of "while True": Kodi shows what it shows by now, the players are
\* looked through, and the time limit is tested when none matched
PollPlayers ==
  /\ pc = "poll"
  /\ UNCHANGED <<static, locals, scanned, store, library, rpc>>
  /\ \E shown \in PlayerStates, step \in 1..MaxStep, id \in {hist.movie_id} :
       /\ players' = [players EXCEPT ![hosts[1]] = shown]
       /\ LET now == hist.elapsed + step
              found == start_poll(hosts[1], id)'
              out == IF found = "player" THEN "player"
                     ELSE IF now > Deadline THEN "none" ELSE ""
          IN /\ hist' = [hist EXCEPT !.rounds = @ + 1, !.elapsed = now, !.returned = out,
                                     !.seen = get_player_item(hosts[1])']
             /\ pc' = IF out = "" THEN "poll" ELSE "returned"

StartNext == OpenMovie \/ PollPlayers

\* the script keeps running
StartSpec == StartInit /\ [][StartNext]_vars /\ WF_vars(StartNext)

\* ------------------------------------------------------------- properties
Sent(method) == {q \in rpc : q.method = method}
WorkflowNotes == {q \in Sent("GUI.ShowNotification") : q.arg \in WorkflowTitles}
StopNotes == {q \in Sent("GUI.ShowNotification") : q.arg = StoppedTitle}
GuiRefresh == {q \in Sent("VideoLibrary.Scan") : q.arg = "/does_not_exist/"}
Reconciling == event \in {"DownloadUpgrade", "Rename"}
StoreData == IF store.exists THEN store.data ELSE <<>>

\* two entries carry the same stable identifier
SameStableId(a, b) == a.tmdb # NoTmdb /\ a.tmdb = b.tmdb

\* C1: scan_directory returns only after some host's scan_movie_dir returned
\* success within that call: the retry loop is left, and the call returns, only
\* when a host that was asked in one of its passes did the scan. With an empty
\* host list, or with skip_active and every host playing, it is never left.
C1_ScanReturnsOnlyAfterSuccess ==
  (pc = "scan_end" \/ hist.dir_returned) => hist.scan_ok

\* C1 witness: the loop was left in a pass that skipped a playing host and
\* had a later host scan
C1_Witness ==
  /\ pc = "scan_end" /\ hist.scan_ok
  /\ hist.pass.op = "scan_dir" /\ hist.pass.skipped # {} /\ hist.pass.winner # None

\* C2: in the rename and download-upgrade workflows, once reconciliation is
\* over, copy_metadata(r, n) has been invoked for a removed entry r and a new
\* entry n if and only if r and n carry the same stable identifier
ReconcileOver ==
  Reconciling /\ (pc \in {"gui", "restart", "notify"} \/ (pc = "done" /\ ~hist.nfo_timeout))
C2_CopyIffSameStableId ==
  ReconcileOver =>
    \A i \in DOMAIN removed_movies, j \in DOMAIN new_movies :
      (<<removed_movies[i], new_movies[j]>> \in hist.copied)
        <=> SameStableId(removed_movies[i], new_movies[j])

\* C3: in the rename and download-upgrade workflows, once the restoration
\* phase is over, Player.Open for a new entry e has been sent to host h if and
\* only if the store held a record of h whose entry has the stable identifier
\* of e, and no exception has left the handler
RestoreOver == Reconciling /\ hist.restoring /\ pc \in {"notify", "done", "raised"}
HeldFor(h, e) ==
  \E k \in DOMAIN hist.held :
    hist.held[k].host_name = h /\ hist.held[k].movie.tmdb = e.tmdb
C3_RestartIffRecord ==
  (RestoreOver /\ ~hist.read_failed) =>
    /\ pc # "raised"
    /\ \A h \in SeqToSet(hosts), j \in DOMAIN new_movies :
         (\E q \in Sent("Player.Open") : q.host = h /\ q.id = new_movies[j].movie_id)
           <=> HeldFor(h, new_movies[j])

\* C4: a run of the rename, download-upgrade or movie-file-delete (reason not
\* upgrade) workflow that ends with zero entries removed has had a library
\* clean done by some host; stated for the runs in which every host of the list
\* is usable, nobody is playing and no NFO wait timed out
CalmRun ==
  /\ \A i \in DOMAIN hosts : IsHost(i)
  /\ \A h \in Names : players[h] = Idle
  /\ ~hist.nfo_timeout
C4_CleanWhenNothingRemoved ==
  (/\ Reconciling \/ (event = "MovieFileDelete" /\ ~IsUpgradeDelete)
   /\ CalmRun
   /\ pc \in {"done", "raised"}
   /\ removed_movies = <<>>)
    => hist.cleaned

C6_NfoTimeoutAborts ==
  hist.nfo_timeout =>
    /\ cfg.wait_for_nfo
    /\ pc = "done"
    /\ rpc = hist.snap
    /\ \A q \in rpc : q.method \in {"Player.Stop", "VideoLibrary.RemoveMovie"}
                        \/ q \in StopNotes
    /\ ~hist.restoring /\ hist.copied = {} /\ ~hist.cleaned /\ ~hist.scan_ok

\* C6 witness: a rename timed out after it had removed an old entry
C6_Witness ==
  /\ event = "Rename" /\ hist.nfo_timeout /\ pc = "done"
  /\ Sent("VideoLibrary.RemoveMovie") # {}

\* C7: after the stop phase of a rename that stopped playback and whose store
\* writes all succeeded, the store holds exactly the records captured in that
\* stop phase, one per stopped player
StopPhaseOver ==
  event = "Rename" /\ pc \in {"nfo", "forced_clean", "scan_begin", "scan_round", "scan_end"}
C7_StoreHoldsAllRecords ==
  (StopPhaseOver /\ hist.stopped_all # <<>> /\ ~hist.write_failed) =>
    StoreData = hist.stopped_all

\* C8: once the restoration phase is over, every stored record that matches a
\* new entry has had Player.Open sent to its host with the new entry's id and
\* the recorded position, followed by Player.PlayPause if and only if the
\* record was paused
C8_RestartAtPositionAndPause ==
  (RestoreOver /\ ~hist.read_failed) =>
    \A k \in DOMAIN hist.held, j \in DOMAIN new_movies :
      LET rec == hist.held[k]
          open == Req(rec.host_name, "Player.Open", "", new_movies[j].movie_id, rec.position)
      IN (rec.movie.tmdb = new_movies[j].tmdb /\ rec.host_name \in SeqToSet(hosts)) =>
           /\ open \in rpc
           /\ (Sent("Player.PlayPause") \cap {q \in rpc : q.host = rec.host_name} # {})
                <=> rec.paused

\* C9: a MovieFileDelete whose reason is "upgrade" in any letter case issues
\* only Player.Stop to hosts it captured a record from, and the stop
\* notification: no removal, clean, scan, GUI refresh or workflow notification
UpgradeReason == env.movie_file_delete_reason \in {"upgrade", "Upgrade", "UPGRADE"}
C9_UpgradeDeleteOnlyStops ==
  (event = "MovieFileDelete" /\ UpgradeReason) =>
    /\ \A q \in rpc :
         \/ q.method = "Player.Stop"
              /\ \E k \in DOMAIN hist.stopped_all : hist.stopped_all[k].host_name = q.host
         \/ q \in StopNotes
    /\ scanned = {} /\ ~hist.cleaned
    /\ pc \in {"lookup", "stop", "done", "raised"}

\* C9 witness: reason "Upgrade", a player was stopped, the handler returned
C9_Witness ==
  /\ event = "MovieFileDelete" /\ env.movie_file_delete_reason = "Upgrade"
  /\ pc = "done" /\ Sent("Player.Stop") # {}

\* C10 (as claimed): once the scans of a download-new, download-upgrade or
\* rename have ended with zero new entries, no notification is sent and no
\* request that changes the library is issued any more
C10_ZeroNewIsNoOp ==
  hist.zero_new =>
    /\ WorkflowNotes = {}
    /\ \A q \in rpc \ hist.snap : q \in GuiRefresh

\* C10 (amended): once the scans have ended with zero new entries, no
\* notification is sent, no metadata is copied and no playback is restarted;
\* the clean configured by clean-after-update still runs, and rename and
\* download-upgrade still refresh the GUIs, download-new does not
C10_ZeroNewNoNotification ==
  hist.zero_new =>
    /\ WorkflowNotes = {}
    /\ hist.copied = {} /\ Sent("VideoLibrary.SetMovieDetails") = {}
    /\ Sent("Player.Open") = {}
    /\ \A q \in rpc \ hist.snap :
         \/ q.method = "VideoLibrary.Clean" /\ cfg.clean_after_update
         \/ q \in GuiRefresh /\ Reconciling

\* C10 witness: a rename with zero new entries ran its configured clean and
\* returned
C10_Witness ==
  /\ event = "Rename" /\ hist.zero_new /\ pc = "done" /\ ToggleOn
  /\ (Sent("VideoLibrary.Clean") \ hist.snap) # {}

\* C11: once update_guis has run in a workflow that scans (download-new,
\* download-upgrade, rename), every host that did not perform the real scan has
\* been sent the no-op scan of "/does_not_exist/", a host that only removed an
\* entry or only ran a clean included, and no host that performed the scan has
C11_GuiRefreshAllButScanner ==
  (hist.gui_done /\ event \in {"DownloadNew", "DownloadUpgrade", "Rename"}) =>
    \A i \in DOMAIN hosts :
      (\E q \in GuiRefresh : q.host = hosts[i]) <=> hosts[i] \notin hist.scanners

\* C12: remove_movie asks the hosts in list order and stops at the first one
\* that accepts: the hosts asked to remove an entry are a prefix of the host
\* list in which every host before the last one refused, so no host after the
\* first accepting one is asked; and in the rename and download-upgrade
\* workflows the entry is in the removed set if and only if a host accepted
RemovalAsked(id) ==
  {i \in DOMAIN hosts : Req(hosts[i], "VideoLibrary.RemoveMovie", "", id, 0) \in rpc}
InRemoved(id) == \E k \in DOMAIN removed_movies : removed_movies[k].movie_id = id
C12_RemoveFirstAccepting ==
  \A id \in OldIds :
    /\ \A i \in RemovalAsked(id) :
         \A j \in 1..(i - 1) : j \in RemovalAsked(id) /\ ~Up(hosts[j])
    /\ Reconciling => (InRemoved(id) <=> \E i \in RemovalAsked(id) : Up(hosts[i]))

\* C12 witness: the first host refused, the second accepted, and the entry is
\* in the removed set
C12_Witness ==
  /\ Reconciling
  /\ \E id \in OldIds :
       /\ RemovalAsked(id) = {1, 2} /\ ~Up(hosts[1]) /\ Up(hosts[2])
       /\ InRemoved(id)

\* C13 (as claimed): in the download-upgrade, rename and movie-file-delete
\* workflows, once the removal of an entry has been requested, no answering
\* host of the list still has a player showing that entry: the player was
\* stopped before the removal
Shows(h, id) ==
  players[h].kind = "item" /\ players[h].type = "movie" /\ players[h].item_id = id
ShownAtStart(h, id) ==
  hist.shown[h].kind = "item" /\ hist.shown[h].type = "movie" /\ hist.shown[h].item_id = id
Captured(h, id) ==
  /\ Req(h, "Player.Stop", "", 1, 0) \in rpc
  /\ \E k \in DOMAIN hist.stopped_all :
       /\ hist.stopped_all[k].host_name = h
       /\ hist.stopped_all[k].movie.movie_id = id
       /\ hist.stopped_all[k].position = Position
       /\ hist.stopped_all[k].paused = hist.shown[h].paused
StoppedFirst(q) ==
  \A i \in DOMAIN hosts :
    (IsHost(i) /\ Up(hosts[i])) =>
      /\ ~Shows(hosts[i], q.id)
      /\ ShownAtStart(hosts[i], q.id) => Captured(hosts[i], q.id)
C13_StoppedBeforeRemoval ==
  event \in {"DownloadUpgrade", "Rename", "MovieFileDelete"} =>
    \A q \in Sent("VideoLibrary.RemoveMovie") : StoppedFirst(q)

\* C13 (amended): in the rename and movie-delete workflows, once the removal
\* of an entry has been requested, every answering host of the list whose
\* player showed that entry has been sent Player.Stop and its record (host,
\* entry, position, paused flag) has been captured, and no such host still
\* shows the entry. download_upgrade has no stop phase
C13_RenameStoppedBeforeRemoval ==
  event \in {"Rename", "MovieDelete"} =>
    \A q \in Sent("VideoLibrary.RemoveMovie") : StoppedFirst(q)

\* C13 witness: a rename requested the removal of an entry that a host was
\* showing paused, after it had stopped that host's player
C13_Witness ==
  /\ event = "Rename"
  /\ \E q \in Sent("VideoLibrary.RemoveMovie") :
       \E i \in DOMAIN hosts :
         /\ IsHost(i) /\ ShownAtStart(hosts[i], q.id) /\ hist.shown[hosts[i]].paused
         /\ Captured(hosts[i], q.id)

\* C14: the "stopped playback" notification has been sent to exactly the
\* hosts whose player was sent Player.Stop, and to no other host; when nothing
\* was stopped none is sent and the store is as it was. Stated for the runs in
\* which every host of the list is usable
StoppedHosts == {q.host : q \in Sent("Player.Stop")}
C14_StopNotesToStoppedHosts ==
  (\A i \in DOMAIN hosts : IsHost(i)) =>
    /\ {q.host : q \in StopNotes} = StoppedHosts
    /\ (StoppedHosts = {} /\ ~hist.restoring) =>
         store \in {Absent, [exists |-> TRUE, data |-> Leftover]}

\* C15: when the store writes of the stop phase of a rename have failed, no
\* exception leaves the handler, the phases after the stop phase run to the
\* handler's end, and the restoration phase restarts nothing
C15_WriteFailureIsHarmless ==
  (event = "Rename" /\ hist.write_failed /\ ~hist.wrote) =>
    /\ pc # "raised"
    /\ Sent("Player.Open") = {}

\* C16: a _deserialize call does not raise and leaves the store absent; it
\* returns the list last saved, or the empty list when the content could not be
\* read
C16_LoadClearsStore ==
  hist.load.done =>
    /\ ~hist.load.raised
    /\ hist.load.left = Absent
    /\ hist.load.got = (IF hist.load.outcome = "ok" THEN hist.load.had.data ELSE <<>>)

\* C17: after the stop phase of a rename or of a MovieFileDelete for an
\* upgrade, in which stop_playback ran, every record in the store was captured
\* by this event's stop phase, also when nothing was stopped
C17_NoStaleRecord ==
  (hist.stop_ran /\ (StopPhaseOver \/ (IsUpgradeDelete /\ pc = "done"))) =>
    \A k \in DOMAIN StoreData :
      \E n \in DOMAIN hist.stopped_all : hist.stopped_all[n] = StoreData[k]

\* C18: a rename or download-upgrade whose restoration phase is over has
\* loaded the store at most once, exactly once when the store held records,
\* and the store is absent, whatever the number of new entries
C18_StoreConsumedOnce ==
  (RestoreOver /\ ~hist.read_failed) =>
    /\ hist.loads <= 1
    /\ hist.held # <<>> => hist.loads = 1
    /\ ~store.exists

C20_SuccessOnlyIfFlagFalse ==
  /\ hist.pass.winner # None => hist.pass.answer = "done"
  /\ \A h \in hist.pass.asked : scan_outcome(h) # "done" => hist.pass.winner # h

\* C21: whatever the hosts answer, and whichever hosts were unreachable when
\* the host list was built, no exception leaves the event handler
C21_NoExceptionEscapes ==
  pc # "raised"

\* C22: in the fan-out phases a failure on one host does not prevent the
\* attempt on a later one: a notify-only workflow whose toggle is enabled and
\* whose notification phase has run has sent its notification to every host of
\* the list, and once stop_playback has been called for an entry every
\* answering host of the list that showed the entry has been stopped and
\* captured
C22_FanOutReachesEveryHost ==
  /\ (event \in NotifyOnly /\ ToggleOn /\ pc # "start") =>
       \A i \in DOMAIN hosts :
         IsHost(i) => \E q \in WorkflowNotes : q.host = hosts[i]
  /\ \A id \in hist.stop_called :
       \A i \in DOMAIN hosts :
         (IsHost(i) /\ Up(hosts[i]) /\ ShownAtStart(hosts[i], id)) => Captured(hosts[i], id)

\* C23: a round of scan_directory, full_scan or clean_library goes through the
\* hosts in list order and ends at the first host that reports success: the
\* hosts asked or skipped in the latest round are a prefix of the host list, the
\* host that succeeded is the last of them and every host asked before it
\* failed; a round without a success has gone through the whole list, and only
\* then is the loop still to run another round
Index(S) == {i \in DOMAIN hosts : hosts[i] \in S}
RoundPcs == {"forced_clean", "clean", "scan_round", "full_round"}
C23_RoundsInOrderFirstSuccess ==
  hist.pass.op # "" =>
    LET touched == Index(hist.pass.asked \cup hist.pass.skipped)
    IN /\ \A i \in touched : \A j \in 1..(i - 1) : j \in touched
       /\ hist.pass.asked \cap hist.pass.skipped = {}
       /\ hist.pass.winner # None =>
            /\ hist.pass.winner \in hist.pass.asked
            /\ \A i \in touched : \A w \in Index({hist.pass.winner}) : i <= w
            /\ \A h \in hist.pass.asked \ {hist.pass.winner} : ~scan_result(scan_outcome(h))
            /\ pc \notin RoundPcs
       /\ (hist.pass.winner = None /\ pc # "raised") =>
            /\ touched = DOMAIN hosts
            /\ \A h \in hist.pass.asked : ~scan_result(scan_outcome(h))
            /\ pc \in RoundPcs

\* C23 witness: a round of clean_library in which the first host failed and
\* the second one cleaned
C23_Witness ==
  /\ hist.pass.op = "clean" /\ hist.pass.asked = {"A", "B"} /\ hist.pass.winner = "B"
  /\ hosts = <<"A", "B">>

\* C24: with skip-active configured, no round of a directory scan, a full scan
\* or a clean, the optional clean after the scan included, asks a host that
\* reported an active player
C24_SkipActiveNeverAsksPlayingHost ==
  (cfg.skip_active /\ hist.pass.op # "") =>
    \A h \in hist.pass.asked : ~is_playing(h)

\* C25: scan_directory, full_scan and clean_library return, and the workflow
\* around them comes to its end, unless no host can ever report success: every
\* run reaches the handler's end (by return or by an exception) or a retry loop
\* in which every host is skipped as playing or never ends the operation in
\* time; the workflows that only notify always come to their end
Finished == pc \in {"done", "raised"}
SkipNow == IF pc \in {"scan_round", "full_round"} THEN cfg.skip_active ELSE CleanSkip
Stuck ==
  /\ pc \in RoundPcs
  /\ \A i \in DOMAIN hosts :
       IsHost(i) => (mode[hosts[i]] = "slow" \/ (SkipNow /\ is_playing(hosts[i])))
FullScanReqs == {q \in Sent("VideoLibrary.Scan") : q.arg = ""}
FullScanDue == hist.dir_returned /\ hist.dir_new = <<>> /\ cfg.full_scan_fallback
C26_FullScanIffFallback ==
  /\ (FullScanReqs # {} \/ pc \in {"full_begin", "full_round", "full_end"}) => FullScanDue
  /\ hist.full_returned => FullScanDue
  /\ (hist.dir_returned /\ pc \notin {"full_begin", "full_round", "full_end", "raised"}) =>
       (hist.full_returned <=> FullScanDue)
  /\ hist.full_returned =>
       /\ SeqToSet(new_movies) =
            {m \in hist.full_after : ~\E b \in hist.full_before : MovieEq(m, b)}
       /\ \A i, j \in DOMAIN new_movies : i # j => new_movies[i] # new_movies[j]

\* C26 witness: the directory scan of a rename found nothing, the fallback is
\* enabled, and the full scan returned new entries
C26_Witness ==
  /\ event = "Rename" /\ hist.full_returned /\ hist.dir_new = <<>>
  /\ new_movies # <<>> /\ pc = "done"

\* C27: a grab, movie-add, health-issue, health-restored, application-update,
\* manual-interaction or test workflow sends nothing but its own notification
\* and leaves the store, the players and the library as they were; once its
\* notification phase has run it has sent every host of the list exactly one
\* notification if its toggle is enabled, and nothing at all otherwise
NotesTo(h) == {q \in WorkflowNotes : q.host = h}
C27_NotifyOnlyWorkflows ==
  event \in NotifyOnly =>
    /\ rpc = WorkflowNotes
    /\ store = hist.store0 /\ ~hist.wrote /\ ~hist.write_failed /\ ~hist.stop_ran
    /\ players = hist.shown
    /\ ~ToggleOn => rpc = {}
    /\ (ToggleOn /\ pc # "start") =>
         \A i \in DOMAIN hosts : IsHost(i) => Cardinality(NotesTo(hosts[i])) = 1

\* C28: over a host's lifetime at most one platform probe is sent: after the
\* first probe, answered or failed, _map_path sends no XBMC.GetInfoBooleans
C28_AtMostOneProbe ==
  Cardinality(Sent("XBMC.GetInfoBooleans")) <= 1

\* C29: a translated path is the input with the first mapping whose source is
\* a prefix of it applied once to that prefix, rendered for the platform; no
\* mapping is applied for a source that occurs only further in, none is applied
\* to the result, and a path no source is a prefix of is only rendered
PrefixHits(maps, path) == {i \in DOMAIN maps : OccursAt(maps[i].radarr, path, 1)}
PrefixMapped(maps, path) ==
  IF PrefixHits(maps, path) = {} THEN path
  ELSE LET m == maps[CHOOSE i \in PrefixHits(maps, path) :
                       \A j \in PrefixHits(maps, path) : i <= j]
       IN m.kodi \o SubSeq(path, Len(m.radarr) + 1, Len(path))
C29_FirstPrefixMappedOnce ==
  hist.calls > 0 => hist.out = Render(hist.posix, PrefixMapped(hist.path_maps, hist.path))

\* C30: Events(value) of a string never raises; it is the member whose value
\* is the string up to the case of its letters, and UNKNOWN for every string
\* that is no member's value in any case
SameButCase(a, b) ==
  /\ Len(a) = Len(b)
  /\ \A i \in DOMAIN a :
       \/ a[i] = b[i]
       \/ \E k \in DOMAIN LowerCase : {a[i], b[i]} = {LowerCase[k], UpperCase[k]}
C30_EventsCaseInsensitive ==
  hist.parsed =>
    /\ ~hist.raised /\ pc # "raised"
    /\ hist.member \in Members
    /\ \A m \in Members : SameButCase(MemberValue(m), hist.value) => hist.member = m
    /\ (~\E m \in Members : SameButCase(MemberValue(m), hist.value)) => hist.member = "UNKNOWN"

\* C30 witness: the value of MovieFileDelete with every letter in the other
\* case was parsed to that member
C30_Witness ==
  /\ hist.parsed /\ hist.member = "ON_MOVIE_FILE_DELETE"
  /\ hist.value = Flipped(MemberValue("ON_MOVIE_FILE_DELETE"),
                          DOMAIN MemberValue("ON_MOVIE_FILE_DELETE"))

\* C31: run one after the other, an event that saved a record finds its own
\* record when its restoration loads the store, and no record is overwritten
\* or cleared by the other event in between; run at the same time, the record
\* of one event is overwritten and the record of the other is loaded and
\* cleared before their restoration, and neither restarts anything
C31_SequentialKeepsRecord ==
  ~hist.concurrent =>
    \A e \in Events2 :
      /\ hist.lost[e] = ""
      /\ (hist.saved[e] # <<>> /\ hist.at[e] = "load") =>
           (store.exists /\ store.data = hist.saved[e])
      /\ (hist.saved[e] # <<>> /\ hist.at[e] \in {"done", "raised"}) =>
           hist.loaded[e] = hist.saved[e]

\* C31 witness: two events at the same time; the record of the first was
\* overwritten by the second, the first then loaded and cleared the record of
\* the second, and both ended without a restart
C31_Witness ==
  /\ hist.concurrent
  /\ hist.lost = [e \in Events2 |-> IF e = 1 THEN "overwritten" ELSE "cleared"]
  /\ \A e \in Events2 : hist.at[e] \in {"done", "raised"} /\ ~hist.opened[e]
  /\ hist.loaded[2] = <<>> /\ hist.saved[2] # <<>>
  /\ Sent("Player.Open") = {}

\* C32: a MovieFileDelete with a reason other than upgrade, every host usable
\* and answering and nobody playing, does not raise; once past its removal loop every entry
\* it matched has had its removal requested, and at its end the GUI refresh
\* was sent and, with the toggle enabled, every host was notified once per
\* removed entry
C32_FileDeleteRunsThrough ==
  (/\ event = "MovieFileDelete" /\ ~IsUpgradeDelete /\ CalmRun
   /\ hosts # <<>> /\ \A i \in DOMAIN hosts : mode[hosts[i]] = "up") =>
    /\ pc # "raised"
    /\ pc \notin {"start", "lookup", "stop", "remove"} =>
         \A m \in library : m.movie_id \in OldIds => RemovalAsked(m.movie_id) # {}
    /\ pc = "done" =>
         /\ GuiRefresh # {}
         /\ ToggleOn =>
              WorkflowNotes = {Req(hosts[i], "GUI.ShowNotification", Title(event),
                                   removed_movies[j].movie_id, 0) :
                                 i \in DOMAIN hosts, j \in DOMAIN removed_movies}

\* C33: a MovieFileDelete with reason upgrade that wrote a record ends with
\* the record in the store; a DownloadUpgrade that starts with that record in
\* the store, every host usable and nobody playing, and re-adds an entry with
\* the recorded stable identifier ends having sent Player.Open for that entry
\* to the recorded host at the recorded position, with the store absent
C33_UpgradeRestartsAcrossEvents ==
  /\ (event = "MovieFileDelete" /\ IsUpgradeDelete /\ pc = "done" /\ hist.wrote) =>
       store.exists
  /\ (event = "DownloadUpgrade" /\ hist.store0.exists /\ CalmRun /\ Finished) =>
       \A k \in DOMAIN hist.store0.data, j \in DOMAIN new_movies :
         LET rec == hist.store0.data[k]
         IN (rec.host_name \in SeqToSet(hosts) /\ MovieEq(rec.movie, new_movies[j])) =>
              /\ Req(rec.host_name, "Player.Open", "", new_movies[j].movie_id, rec.position)
                   \in rpc
              /\ store = Absent

\* C34: what scan_directory and full_scan return is the set of catalog entries
\* present after the scan that were not present before it, whatever stable
\* identifiers the entries present before carry
C34_ScanReturnsAddedEntries ==
  /\ hist.dir_returned => SeqToSet(hist.dir_new) = hist.dir_after \ hist.dir_before
  /\ hist.full_returned => SeqToSet(new_movies) = hist.full_after \ hist.full_before

\* C35: two catalog entries without a stable identifier are never taken for
\* the same movie: no watched state is copied from one to the other, an entry
\* the directory scan added is returned although an entry without identifier
\* was there before, and no playback is restarted for an entry without
\* identifier
NoStableId(m) == m.tmdb = NoTmdb
C35_NoIdentifierNeverMatches ==
  /\ \A c \in hist.copied : ~(NoStableId(c[1]) /\ NoStableId(c[2]))
  /\ hist.dir_returned =>
       \A m \in hist.dir_after \ hist.dir_before :
         NoStableId(m) => m \in SeqToSet(hist.dir_new)
  /\ \A q \in Sent("Player.Open") :
       \A m \in library : m.movie_id = q.id => ~NoStableId(m)

\* C36: the host list built by LibraryManager holds usable hosts only, each
\* configured host at most once and in configuration order, so that a phase
\* that goes through the list can call every element of it
C36_HostListHoldsUsableHosts ==
  (rpc # {} \/ pc = "raised") =>
    /\ \A i \in DOMAIN hosts : IsHost(i)
    /\ \A i, j \in DOMAIN hosts :
         i < j => \E a, b \in DOMAIN HostNames :
                    a < b /\ hosts[i] = HostNames[a] /\ hosts[j] = HostNames[b]

\* C37: in the calls of the latest stop_playback, the paused flag and the
\* position of a player are read before that player is stopped, the store is
\* written after every read and stop of the loop, and a stop notification is
\* sent after the store was written (after the loop, when nothing is stored)
LogAt(op) == {k \in DOMAIN hist.stop_log : hist.stop_log[k].op = op}
C37_ReadStopWriteNotify ==
  /\ \A k \in LogAt("stop_player") :
       /\ \E i \in LogAt("is_paused") : i < k /\ hist.stop_log[i].host = hist.stop_log[k].host
       /\ \E i \in LogAt("player_percent") :
            i < k /\ hist.stop_log[i].host = hist.stop_log[k].host
       /\ Req(hist.stop_log[k].host, "Player.Stop", "", 1, 0) \in rpc
  /\ \A k \in LogAt("serialize") :
       \A i \in LogAt("is_paused") \cup LogAt("player_percent") \cup LogAt("stop_player") : i < k
  /\ \A k \in LogAt("notify") :
       /\ event # "MovieDelete" => \E i \in LogAt("serialize") : i < k
       /\ \A i \in LogAt("stop_player") : i < k
       /\ hist.stop_log[k].host \in {hist.stop_log[i].host : i \in LogAt("stop_player")}
  /\ (LogAt("stop_player") # {} /\ pc # "raised") => LogAt("notify") # {}

\* C37 witness: stop_playback of a rename stopped the players of two hosts,
\* wrote the store and notified both
C37_Witness ==
  /\ event = "Rename" /\ Cardinality(LogAt("stop_player")) = 2
  /\ LogAt("serialize") # {} /\ Cardinality(LogAt("notify")) = 2

\* C38: start_movie returns a player only when the item it saw on that player
\* is a movie with the requested id; it returns none when Player.Open failed,
\* without polling, and otherwise only once the time limit is over; and it
\* returns in the end
StartMovieSafe ==
  /\ hist.returned = "player" =>
       /\ hist.seen.item /\ hist.seen.type = "movie" /\ hist.seen.item_id = hist.movie_id
       /\ Up(hosts[1])
  /\ (hist.returned = "none" /\ Up(hosts[1])) => hist.elapsed > Deadline
  /\ ~Up(hosts[1]) => hist.rounds = 0 /\ hist.returned \in {"", "none"}
  /\ pc = "poll" => hist.elapsed <= Deadline
  /\ pc = "returned" <=> hist.returned # ""
C38_StartMovieReturnsMatchOrNone ==
  [](StartMovieSafe) /\ <>(pc = "returned")

\* C38 witness: the movie came up in the third round and its player was
\* returned
C38_Witness ==
  /\ hist.returned = "player" /\ hist.rounds = 3
  /\ players[hosts[1]] = Playing("movie", hist.movie_id, FALSE)

\* C39: a MovieDelete that reports no deleted files sends nothing at all; one
\* that reports deleted files never writes the store, and once it has ended
\* stop_playback was called and the removal was requested for every entry the
\* catalog returned for the movie directory
C39_MovieDeleteOnlyWithFiles ==
  event = "MovieDelete" =>
    /\ ~env.movie_deleted_files => rpc = {} /\ players = hist.shown
    /\ store = hist.store0 /\ ~hist.wrote /\ ~hist.write_failed
    /\ (env.movie_deleted_files /\ Finished) =>
         \A id \in hist.matched : id \in hist.stop_called /\ RemovalAsked(id) # {}
====
